---- MODULE Spec2Model ----
(***************************************************************************)
(* A model of the extraction-and-load core of the Brazilian markets ETL   *)
(* pipeline: the idempotent loader (load_to_database of StockExtractor    *)
(* and BCBExtractor), alone, in a process that may be killed, and in two  *)
(* processes at once; the per-entity extraction loop (extract_historical  *)
(* and extract_incremental, with validate_date_range); the adapter call   *)
(* with and without the retry wrapper (with_retry); the rate limiter      *)
(* (rate_limit); the batch windows (_calculate_batches) and the dry-run   *)
(* plan (show_backfill_plan); the batched backfill                        *)
(* (extract_full_historical_batched and                                   *)
(* extract_single_indicator_full_history), also killed and run again;     *)
(* and the two adapters.                                                  *)
(*                                                                         *)
(* Each component has its own specification (SpecLoad, SpecLoadFault,     *)
(* SpecLoadCrash, SpecConc, SpecExtract, SpecRetry, SpecRate, SpecBatch,  *)
(* SpecBatchLoop, SpecBackfill, SpecResume, SpecAdapter); the variables   *)
(* of the other components keep their initial values under it.            *)
(***************************************************************************)
EXTENDS Integers, Sequences, FiniteSets, TLC

VARIABLES
    \* ---- destination store and loader (load_to_database) ----
    table,          \* raw.stocks / raw.indicators: sequence of stored rows
    staging,        \* staging tables of the schema: name -> sequence of rows
    now,            \* wall clock in whole seconds (time.time(), datetime.now())
    pc,             \* position of the running load_to_database call
    df,             \* the DataFrame passed in: [cols, rows]
    initial_count,  \* local of load_to_database
    loaded_at,      \* the stamp written to df["loaded_at"]
    temp_table,     \* the staging table name of the call
    ret,            \* the value returned (rows_inserted)
    err,            \* the error that reaches the caller
    origErr,        \* the error caught by the except clause
    writes,         \* write statements attempted by the call so far
    staged,         \* the call got as far as df.to_sql
    tbl0,           \* table when the call began
    stg0,           \* staging when the call began
    prev,           \* the previous finished call: [ok, df, ret, tbl0]
    calls,          \* finished calls
    down,           \* the store is unreachable: every statement sent to it fails
    faults,         \* outages of the store so far
    \* ---- extract_historical (StockExtractor / BCBExtractor) ----
    epc,            \* position of the extract_historical call
    entities,       \* self.tickers / self.indicators of the extractor, in order
    all_data,       \* local: the frames collected so far
    failed,         \* local: failed_tickers / failed_indicators
    outcomes,       \* what the adapter did for each entity attempted so far
    sleeps,         \* time.sleep(rate_limit_delay) calls of the loop
    result,         \* the frame returned
    emsg,           \* the failed list carried by the ValueError raised
    arg_start,      \* start_date as the caller passed it
    arg_end,        \* end_date as the caller passed it
    start_date,     \* local: start_date or self.config.start_date
    end_date,       \* local: end_date or self.config.end_date
    today,          \* datetime.now() of the call, in ticks
    warned,         \* validate_date_range logged its end-in-the-future warning
    adapter_calls,  \* the adapter calls issued: (entity, start_date, end_date)
    lookback_arg,   \* lookback_days as passed to extract_incremental
    \* ---- with_retry around _extract_single_indicator ----
    rpc,            \* position of one call of the retrying wrapper
    attempts,       \* what each attempt of the wrapped function did, in order
    waits,          \* the backoff waits slept, in order
    netCalls,       \* requests.get calls issued
    raised,         \* the error that reaches the caller: [kind, cause]
    r_fn,           \* the adapter function that is called
    jsonErrIsRequestException,  \* the requests build: response.json() raises
                    \* requests.exceptions.JSONDecodeError (a RequestException)
    \* ---- rate_limit ----
    t,              \* time.time(), in ticks
    last_call_time, \* the nonlocal of each decorated function, -1 for None
    lpc,            \* position of the thread: idle, sleeping or in the wrapped call
    cur,            \* the decorated function being called
    wakeAt,         \* the time the pending time.sleep ends
    began,          \* when the wrapped call of each function last began, -1: never
    returned,       \* when the wrapped call of each function last returned
    prevReturned,   \* returned[cur] when the running wrapped call began
    slept,          \* the current invocation was delayed
    \* ---- BCBExtractor._calculate_batches ----
    cbpc,           \* position of one call of _calculate_batches
    cb_start,       \* argument start_date, a datetime in ticks
    cb_end,         \* argument end_date
    cb_years,       \* argument batch_size_years
    cb_batches,     \* the list returned: (batch_start, batch_end) pairs
    cb_current,     \* local current_start of the while loop
    cb_plan,        \* "Batches needed" of show_backfill_plan
    \* ---- the batched backfill (BCBExtractor) ----
    fpc,            \* position: extract_full_historical_batched, then
                    \* extract_single_indicator_full_history
    f_now,          \* datetime.now() of the run (end_date), in ticks
    f_years,        \* batch_size_years
    f_save,         \* save_after_each_batch
    f_i,            \* index of the indicator of the outer loop
    f_b,            \* index of the batch of the inner loop
    indicator_rows, \* local of the outer loop
    total_rows_inserted,  \* local, the value returned
    f_ret,          \* the value extract_full_historical_batched returned
    f_contrib,      \* indicator_rows of each indicator when its batches ended
    f_log,          \* the batches attempted so far, in order
    f_sleeps,       \* time.sleep calls between batches
    ind_table,      \* raw.indicators
    ind_table0,     \* raw.indicators when the run began
    s_code,         \* argument code of extract_single_indicator_full_history
    s_b,            \* index of its batch
    total_rows,     \* its local, the value returned
    s_log,          \* the batches it attempted, in order
    s_table,        \* raw.indicators of the store it runs against
    s_sleeps,       \* its time.sleep calls between batches
    \* ---- the adapters ----
    apc,            \* position of one adapter call
    a_fn,           \* the adapter called
    a_code,         \* argument code of _extract_single_indicator
    a_name,         \* argument name of _extract_single_indicator
    response,       \* response.json() of the BCB answer: a list of items
    records,        \* the records _extract_single_indicator returns
    hist,           \* stock.history(...): the closes, one per day
    prices,         \* the rows _extract_single_ticker returns
    \* ---- a backfill that is killed and run again ----
    r_table,        \* raw.indicators of the store the killed run writes to
    r_k,            \* the batch the killed run, then the second run, is at
    r_cut,          \* the batches the killed run went through
    r_snap,         \* raw.indicators when the run was killed
    \* ---- two processes that load into the same table ----
    c_table,        \* the permanent table both load into
    c_staging,      \* staging tables of the schema: name -> sequence of rows
    c_now,          \* wall clock in whole seconds, the same for both
    c_pc,           \* per process: position of its load_to_database call
    c_df,           \* per process: the rows of the frame passed in
    c_at,           \* per process: the stamp written to df["loaded_at"]
    c_temp,         \* per process: the staging table name of the call
    c_init,         \* per process: local initial_count
    c_ret,          \* per process: the value returned
    c_err,          \* per process: the error that reaches the caller
    c_merged        \* per process: the rows its INSERT ... SELECT read

loadVars == <<table, staging, now, pc, df, initial_count, loaded_at, temp_table,
              ret, err, origErr, writes, staged, tbl0, stg0, prev, calls,
              down, faults>>

extractVars == <<epc, entities, all_data, failed, outcomes, sleeps, result, emsg,
                 arg_start, arg_end, start_date, end_date, today, warned,
                 adapter_calls, lookback_arg>>

retryVars == <<rpc, attempts, waits, netCalls, raised, r_fn,
               jsonErrIsRequestException>>

rateVars == <<t, last_call_time, lpc, cur, wakeAt, began, returned, prevReturned,
              slept>>

batchVars == <<cbpc, cb_start, cb_end, cb_years, cb_batches, cb_current, cb_plan>>

backfillVars == <<fpc, f_now, f_years, f_save, f_i, f_b, indicator_rows,
                  total_rows_inserted, f_ret, f_contrib, f_log, f_sleeps,
                  ind_table, ind_table0, s_code, s_b, total_rows, s_log, s_table,
                  s_sleeps>>

adapterVars == <<apc, a_fn, a_code, a_name, response, records, hist, prices>>

resumeVars == <<r_table, r_k, r_cut, r_snap>>

concVars == <<c_table, c_staging, c_now, c_pc, c_df, c_at, c_temp, c_init, c_ret,
              c_err, c_merged>>

vars == <<loadVars, extractVars, retryVars, rateVars, batchVars, backfillVars,
          adapterVars, resumeVars, concVars>>

\* the variables of the components other than the one that takes a step
notLoad == <<extractVars, retryVars, rateVars, batchVars, backfillVars,
    adapterVars, resumeVars, concVars>>
notExtract == <<loadVars, retryVars, rateVars, batchVars, backfillVars,
    adapterVars, resumeVars, concVars>>
notRetry == <<loadVars, extractVars, rateVars, batchVars, backfillVars,
    adapterVars, resumeVars, concVars>>
notRate == <<loadVars, extractVars, retryVars, batchVars, backfillVars,
    adapterVars, resumeVars, concVars>>
notBatch == <<loadVars, extractVars, retryVars, rateVars, backfillVars,
    adapterVars, resumeVars, concVars>>
notBackfill == <<loadVars, extractVars, retryVars, rateVars, batchVars,
    adapterVars, resumeVars, concVars>>
notAdapter == <<loadVars, extractVars, retryVars, rateVars, batchVars,
    backfillVars, resumeVars, concVars>>
notResume == <<loadVars, extractVars, retryVars, rateVars, batchVars, adapterVars,
    concVars>>
notConc == <<loadVars, extractVars, retryVars, rateVars, batchVars, backfillVars,
    adapterVars, resumeVars>>

-----------------------------------------------------------------------------
(* Bounds of the model *)

MaxRows == 2        \* rows of one input DataFrame
MaxClock == 1       \* seconds the clock may advance
MaxCalls == 3       \* load_to_database calls in one behaviour
MaxFaults == 1      \* outages of the store in one behaviour

MaxEntities == 3    \* entities configured for one extractor
MaxTime == 7        \* ticks the rate limiter's clock may advance

MaxDay == 733       \* the latest day (counted from day 0) a date may name
MaxYears == 2       \* the largest batch_size_years passed
MaxNowDay == 367    \* the latest day the batched backfill runs on
MaxDateArg == 4     \* the latest day a date passed to extract_historical names
MaxLookback == 3    \* the largest lookback_days passed to extract_incremental
MaxItems == 2       \* items of one upstream answer
MaxLoopDay == 3     \* the latest end day of the loop of _calculate_batches, step by step
MaxSteps == 4       \* the iterations of that loop that are followed
MaxNegYears == 1    \* --batch-size goes down to -MaxNegYears (any integer is accepted)

Keys == {"k1", "k2"}        \* natural keys: (ticker, date) / (indicator_code, date)
Vals == {"v1", "v2"}        \* the value columns of a row, taken together

-----------------------------------------------------------------------------
(* Data *)

\* stock_extractor.py:260-269
RequiredColumns ==
    {"ticker", "date", "open_price", "high_price", "low_price", "close_price",
     "volume", "adj_close"}

\* stock_extractor.py:278 (the BCB loader writes "bcb_api")
SourceTag == "yahoo_finance"

NoDf == [cols |-> {}, rows |-> <<>>]
NoPrev == [ok |-> FALSE, df |-> NoDf, ret |-> 0, tbl0 |-> <<>>]

InputRow == [key : Keys, val : Vals]
InputRows == UNION {[1..n -> InputRow] : n \in 0..MaxRows}
\* a frame with rows that lacks close_price
NoCloseDf ==
    [cols |-> RequiredColumns \ {"close_price"},
     rows |-> <<[key |-> "k1", val |-> "v1"]>>]
\* the frames a caller may pass: every frame with all the columns, and NoCloseDf
InputDf == [cols : {RequiredColumns}, rows : InputRows] \cup {NoCloseDf}
\* the frames passed while the store may fail: no row or one row
SmallDf == {d \in InputDf : Len(d.rows) <= 1}
\* the frames passed to a process that may be killed: two new keys, one key
\* twice with different values, and a single row
PairDf ==
    [cols : {RequiredColumns},
     rows : {<<[key |-> "k1", val |-> "v1"], [key |-> "k2", val |-> "v1"]>>,
             <<[key |-> "k1", val |-> "v1"], [key |-> "k1", val |-> "v2"]>>,
             <<[key |-> "k2", val |-> "v2"]>>}]

\* a datetime is a number of ticks since day 0, 00:00; a day has two ticks
\* (00:00 and 12:00), so that datetime.now() can fall inside a day
TicksPerDay == 2
\* bcb_extractor.py:326: a batch year is 365 days
DaysPerYear == 365

\* timedelta(days=n)
Days(n) == n * TicksPerDay
\* dt.strftime("%Y-%m-%d"): the day of a datetime
DateOf(dt) == dt \div TicksPerDay
\* datetime.strptime(s, "%Y-%m-%d"): 00:00 of the day
Midnight(day) == day * TicksPerDay

KeysOf(rows) == {rows[i].key : i \in 1..Len(rows)}
HasKey(rows, k) == \E i \in 1..Len(rows) : rows[i].key = k

\* validate_dataframe without its column check
validate_dataframe_rows_only(d, required_columns) == d.rows # <<>>

\* utils.py:152-173: TRUE when validate_dataframe returns, FALSE when it raises
validate_dataframe(d, required_columns) ==
    /\ d.rows # <<>>
    /\ required_columns \ d.cols = {}

\* stock_extractor.py:277-278: df["loaded_at"] = datetime.now(); df["source"] = ...
Stamp(rows, at, tag) ==
    [i \in 1..Len(rows) |->
        [key |-> rows[i].key, val |-> rows[i].val, loaded_at |-> at, source |-> tag]]

\* the merge as a plain INSERT ... SELECT, without ON CONFLICT
MergeInsertAll(tbl, stg) == tbl \o stg

\* the merge as ON CONFLICT (ticker, date) DO UPDATE
RECURSIVE MergeUpsert(_, _)
MergeUpsert(tbl, stg) ==
    IF stg = <<>> THEN tbl
    ELSE LET r == Head(stg) IN
         MergeUpsert(IF HasKey(tbl, r.key)
                     THEN [i \in 1..Len(tbl) |->
                              IF tbl[i].key = r.key THEN r ELSE tbl[i]]
                     ELSE Append(tbl, r),
                     Tail(stg))

\* stock_extractor.py:293-301: INSERT ... SELECT ... FROM staging
\* ON CONFLICT (ticker, date) DO NOTHING, row by row in staging order
RECURSIVE MergeInsert(_, _)
MergeInsert(tbl, stg) ==
    IF stg = <<>> THEN tbl
    ELSE LET r == Head(stg) IN
         MergeInsert(IF HasKey(tbl, r.key) THEN tbl ELSE Append(tbl, r), Tail(stg))

\* the return value without the subtraction of initial_count
RowsInsertedTotal(final_count, initial_count_) == final_count

\* stock_extractor.py:307-308
RowsInserted(final_count, initial_count_) == final_count - initial_count_

\* DROP TABLE IF EXISTS schema.name
DropIfExists(stg, name) == [n \in DOMAIN stg \ {name} |-> stg[n]]

\* df.to_sql(name, if_exists="replace")
ToSqlReplace(stg, name, rows) ==
    [n \in DOMAIN stg \cup {name} |-> IF n = name THEN rows ELSE stg[n]]

-----------------------------------------------------------------------------
(* extract_historical: the per-entity loop *)

\* config.py:52-55, the head of the default ticker list
Tickers == <<"PETR4.SA", "VALE3.SA", "ITUB4.SA", "BBDC4.SA">>

\* what one adapter call (_extract_single_ticker / _extract_single_indicator)
\* can do: raise, or return a frame of rows (dates, in adapter order)
AdapterFrames == {<<>>, <<1>>, <<1, 2>>, <<2, 1>>}
AdapterOutcomes ==
    {[raises |-> TRUE, dates |-> <<>>]}
    \cup {[raises |-> FALSE, dates |-> d] : d \in AdapterFrames}

\* the rows of one entity's frame
EntityRows(e, dates) == [i \in 1..Len(dates) |-> [entity |-> e, date |-> dates[i]]]

\* the adapter returned and "not df.empty" holds, so the frame is collected
\* although it may hold no row
YieldsUnlessRaised(o) == ~o.raises

\* stock_extractor.py:130-140: the adapter returned and "not df.empty" holds
Yields(o) == ~o.raises /\ o.dates # <<>>

\* pd.concat with the frames taken last to first
RECURSIVE ConcatReversed(_)
ConcatReversed(frames) ==
    IF frames = <<>> THEN <<>> ELSE ConcatReversed(Tail(frames)) \o Head(frames)

\* stock_extractor.py:149: pd.concat(all_data, ignore_index=True)
RECURSIVE Concat(_)
Concat(frames) ==
    IF frames = <<>> THEN <<>> ELSE Head(frames) \o Concat(Tail(frames))

\* a date argument: omitted (None or ""), a string that is no YYYY-MM-DD
\* date, or the YYYY-MM-DD string of a day
NoDate == [kind |-> "none", day |-> 0]
BadDate == [kind |-> "bad", day |-> 0]
DateStr(d) == [kind |-> "date", day |-> d]
DateArgs == {NoDate, BadDate} \cup {DateStr(d) : d \in 0..MaxDateArg}

\* utils.py:143: datetime(2000, 1, 1), the sanity floor, as a day
FloorDay == 1
\* config.py:46: start_date = "2016-03-01", as a day
ConfigStartDay == 2
\* the day the calls are made on
TodayDay == 3
\* config.py:48: lookback_days (5), scaled to the days of the model
ConfigLookbackDays == 2

\* "x or default": None and "" are falsy
OrDefault(x, default) == IF x.kind = "none" THEN default ELSE x

\* datetime.strptime(s, "%Y-%m-%d") succeeds
Parses(s) == s.kind = "date"

\* validate_date_range without the floor check
validate_date_range_no_floor(start, end, now_) ==
    IF ~Parses(start) \/ ~Parses(end) THEN "ValueError"
    ELSE IF Midnight(start.day) > Midnight(end.day) THEN "ValueError"
    ELSE IF Midnight(end.day) > now_ THEN "warned"
    ELSE "ok"

\* utils.py:120-149: "ValueError" when it raises; otherwise it returns True,
\* having logged a warning ("warned") or not ("ok")
validate_date_range(start, end, now_) ==
    IF ~Parses(start) \/ ~Parses(end) THEN "ValueError"
    ELSE IF Midnight(start.day) > Midnight(end.day) THEN "ValueError"
    ELSE IF Midnight(start.day) < Midnight(FloorDay) THEN "ValueError"
    ELSE IF Midnight(end.day) > now_ THEN "warned"
    ELSE "ok"

\* stock_extractor.py:181: lookback_days or self.config.lookback_days;
\* None and 0 are falsy
LookbackOrDefault(lb) ==
    IF lb.given /\ lb.days # 0 THEN lb.days ELSE ConfigLookbackDays

\* lookback_days of a call of extract_incremental: omitted, or an int
NoLookback == [called |-> FALSE, given |-> FALSE, days |-> 0]
LookbackArgs ==
    {[called |-> TRUE, given |-> FALSE, days |-> 0]}
    \cup {[called |-> TRUE, given |-> TRUE, days |-> n] : n \in 0..MaxLookback}

InitExtract ==
    /\ epc = "idle"
    /\ entities = <<>>
    /\ all_data = <<>>
    /\ failed = <<>>
    /\ outcomes = <<>>
    /\ sleeps = 0
    /\ result = <<>>
    /\ emsg = <<>>
    /\ arg_start = NoDate
    /\ arg_end = NoDate
    /\ start_date = NoDate
    /\ end_date = NoDate
    /\ today = 0
    /\ warned = FALSE
    /\ adapter_calls = <<>>
    /\ lookback_arg = NoLookback

\* extract_historical(s, e) at time n on an extractor configured with the
\* first k tickers, up to the loop (stock_extractor.py:116-125)
HistoricalBegin(s, e, n, k) ==
    LET sd == OrDefault(s, DateStr(ConfigStartDay))
        ed == OrDefault(e, DateStr(DateOf(n)))
        v == validate_date_range(sd, ed, n)
    IN /\ arg_start' = s
       /\ arg_end' = e
       /\ start_date' = sd
       /\ end_date' = ed
       /\ today' = n
       /\ entities' = SubSeq(Tickers, 1, k)
       /\ warned' = (v = "warned")
       /\ epc' = IF v = "ValueError" THEN "invalid" ELSE "loop"
       /\ all_data' = <<>>
       /\ failed' = <<>>
       /\ UNCHANGED <<outcomes, sleeps, result, emsg, adapter_calls>>

\* the times of day a call is made at: 00:00 or 12:00 of TodayDay
ExtractNows == {Midnight(TodayDay) + h : h \in 0..(TicksPerDay - 1)}

\* extract_historical(start_date, end_date) is called
ExtractBegin ==
    /\ epc = "idle"
    /\ \E s \in DateArgs, e \in DateArgs, n \in ExtractNows, k \in 1..MaxEntities :
          HistoricalBegin(s, e, n, k)
    /\ UNCHANGED lookback_arg
    /\ UNCHANGED notExtract

\* extract_incremental(lookback_days) is called (stock_extractor.py:181-186)
ExtractIncremental ==
    /\ epc = "idle"
    /\ \E lb \in LookbackArgs, n \in ExtractNows, k \in 1..MaxEntities :
          /\ lookback_arg' = lb
          /\ HistoricalBegin(DateStr(DateOf(n - Days(LookbackOrDefault(lb)))),
                             DateStr(DateOf(n)), n, k)
    /\ UNCHANGED notExtract

\* one iteration of the loop (stock_extractor.py:127-142)
ExtractEntity ==
    /\ epc = "loop"
    /\ Len(outcomes) < Len(entities)
    /\ LET e == entities[Len(outcomes) + 1] IN
       \E o \in AdapterOutcomes :
          /\ outcomes' = Append(outcomes, o)
          /\ adapter_calls' = Append(adapter_calls, <<e, start_date, end_date>>)
          /\ IF Yields(o)
             THEN /\ all_data' = Append(all_data, EntityRows(e, o.dates))
                  /\ UNCHANGED failed
             ELSE /\ failed' = Append(failed, e)
                  /\ UNCHANGED all_data
    /\ sleeps' = sleeps + 1
    /\ UNCHANGED <<epc, entities, result, emsg, arg_start, arg_end, start_date,
                   end_date, today, warned, lookback_arg>>
    /\ UNCHANGED notExtract

\* after the loop (stock_extractor.py:144-158)
ExtractFinish ==
    /\ epc = "loop"
    /\ Len(outcomes) = Len(entities)
    /\ IF all_data = <<>>
       THEN /\ epc' = "raised"
            /\ emsg' = failed
            /\ UNCHANGED result
       ELSE /\ epc' = "returned"
            /\ result' = Concat(all_data)
            /\ UNCHANGED emsg
    /\ UNCHANGED <<entities, all_data, failed, outcomes, sleeps, arg_start,
                   arg_end, start_date, end_date, today, warned, adapter_calls,
                   lookback_arg>>
    /\ UNCHANGED notExtract

NextExtract ==
    \/ ExtractBegin
    \/ ExtractIncremental
    \/ ExtractEntity
    \/ ExtractFinish

-----------------------------------------------------------------------------
(* load_to_database, one action per statement that touches the store *)

InitLoad ==
    /\ table = <<>>
    /\ staging = <<>>
    /\ now = 0
    /\ pc = "idle"
    /\ df = NoDf
    /\ initial_count = 0
    /\ loaded_at = 0
    /\ temp_table = 0
    /\ ret = 0
    /\ err = "none"
    /\ origErr = "none"
    /\ writes = 0
    /\ staged = FALSE
    /\ tbl0 = <<>>
    /\ stg0 = <<>>
    /\ prev = NoPrev
    /\ calls = 0
    /\ down = FALSE
    /\ faults = 0

\* the clock advances; only the reads of the clock (stock_extractor.py:277,280)
\* observe it, so it is advanced before a call and before those reads
Tick ==
    /\ pc \in {"idle", "count0"}
    /\ now < MaxClock
    /\ now' = now + 1
    /\ UNCHANGED <<table, staging, pc, df, initial_count, loaded_at, temp_table,
                   ret, err, origErr, writes, staged, tbl0, stg0, prev, calls,
                   down, faults>>
    /\ UNCHANGED notLoad

\* the store becomes unreachable while a call is running
Outage ==
    /\ pc \in {"count0", "to_sql", "merge", "count1", "handler"}
    /\ ~down
    /\ faults < MaxFaults
    /\ down' = TRUE
    /\ faults' = faults + 1
    /\ UNCHANGED <<table, staging, now, pc, df, initial_count, loaded_at,
                   temp_table, ret, err, origErr, writes, staged, tbl0, stg0,
                   prev, calls>>
    /\ UNCHANGED notLoad

\* the store is reachable again
Recover ==
    /\ down
    /\ down' = FALSE
    /\ UNCHANGED <<table, staging, now, pc, df, initial_count, loaded_at,
                   temp_table, ret, err, origErr, writes, staged, tbl0, stg0,
                   prev, calls, faults>>
    /\ UNCHANGED notLoad

\* the call, up to and including validate_dataframe (stock_extractor.py:260-270).
\* prev is set when the caller passes the frame of the call before once more.
LoadBeginOf(frames) ==
    /\ pc = "idle"
    /\ calls < MaxCalls
    /\ \E d \in frames :
        /\ prev.ok => d = prev.df
        /\ df' = d
        /\ IF validate_dataframe(d, RequiredColumns)
           THEN pc' = "count0" /\ err' = "none"
           ELSE pc' = "raised" /\ err' = "ValueError"
    /\ tbl0' = table
    /\ stg0' = staging
    /\ writes' = 0
    /\ staged' = FALSE
    /\ origErr' = "none"
    /\ UNCHANGED <<table, staging, now, initial_count, loaded_at, temp_table,
                   ret, prev, calls, down, faults>>
    /\ UNCHANGED notLoad

\* initial_count = self._get_row_count(...), then the stamp and the staging
\* name (stock_extractor.py:275-280); a failing count raises outside the try
LoadCount0 ==
    /\ pc = "count0"
    /\ IF ~down
       THEN /\ initial_count' = Len(table)
            /\ loaded_at' = now
            /\ temp_table' = now
            /\ pc' = "to_sql"
            /\ UNCHANGED err
       ELSE /\ pc' = "raised"
            /\ err' = "count_error"
            /\ UNCHANGED <<initial_count, loaded_at, temp_table>>
    /\ UNCHANGED <<table, staging, now, df, ret, origErr, writes, staged,
                   tbl0, stg0, prev, calls, down, faults>>
    /\ UNCHANGED notLoad

\* df.to_sql(temp_table, if_exists="replace") (stock_extractor.py:283-291).
\* A failure leaves the staging table absent/untouched or created without rows.
LoadToSql ==
    /\ pc = "to_sql"
    /\ writes' = writes + 1
    /\ staged' = TRUE
    /\ IF ~down
       THEN /\ staging' = ToSqlReplace(staging, temp_table,
                                       Stamp(df.rows, loaded_at, SourceTag))
            /\ pc' = "merge"
            /\ UNCHANGED origErr
       ELSE /\ \/ UNCHANGED staging
               \/ staging' = ToSqlReplace(staging, temp_table, <<>>)
            /\ pc' = "handler"
            /\ origErr' = "staging_error"
    /\ UNCHANGED <<table, now, df, initial_count, loaded_at, temp_table, ret, err,
                   tbl0, stg0, prev, calls, down, faults>>
    /\ UNCHANGED notLoad

\* the INSERT of the merge cannot run: the staging table or one of the columns
\* it selects is missing
MergeImpossible ==
    \/ temp_table \notin DOMAIN staging
    \/ ~(RequiredColumns \subseteq df.cols)

\* the rows the staging table of this call holds, none when it does not exist
StagedRows == IF temp_table \in DOMAIN staging THEN staging[temp_table] ELSE <<>>

\* a failed transaction that had inserted the first staged row and kept it
AfterFailedMergePartial(tbl, stg) ==
    IF stg = <<>> THEN tbl ELSE MergeInsert(tbl, SubSeq(stg, 1, 1))

\* with self.engine.begin() as conn (stock_extractor.py:303-305): the block
\* that raises, or never reaches its end, is rolled back as a whole
AfterFailedMerge(tbl, stg) == tbl

\* with self.engine.begin(): INSERT ... ON CONFLICT DO NOTHING; DROP TABLE IF
\* EXISTS (stock_extractor.py:303-305): one transaction, committed or rolled back
LoadMerge ==
    /\ pc = "merge"
    /\ writes' = writes + 1
    /\ IF ~down /\ ~MergeImpossible
       THEN /\ table' = MergeInsert(table, staging[temp_table])
            /\ staging' = DropIfExists(staging, temp_table)
            /\ pc' = "count1"
            /\ UNCHANGED origErr
       ELSE /\ pc' = "handler"
            /\ origErr' = "merge_error"
            /\ table' = AfterFailedMerge(table, StagedRows)
            /\ UNCHANGED staging
    /\ UNCHANGED <<now, df, initial_count, loaded_at, temp_table, ret, err, staged,
                   tbl0, stg0, prev, calls, down, faults>>
    /\ UNCHANGED notLoad

\* final_count and the return (stock_extractor.py:307-315), inside the try
LoadCount1 ==
    /\ pc = "count1"
    /\ IF ~down
       THEN /\ ret' = RowsInserted(Len(table), initial_count)
            /\ pc' = "returned"
            /\ UNCHANGED origErr
       ELSE /\ pc' = "handler"
            /\ origErr' = "count_error"
            /\ UNCHANGED ret
    /\ UNCHANGED <<table, staging, now, df, initial_count, loaded_at, temp_table,
                   err, writes, staged, tbl0, stg0, prev, calls, down, faults>>
    /\ UNCHANGED notLoad

\* except Exception: DROP TABLE IF EXISTS in a transaction of its own, then a
\* bare raise (stock_extractor.py:317-321). When the DROP itself raises, that
\* error leaves the handler and the bare raise is never reached.
LoadHandler ==
    /\ pc = "handler"
    /\ writes' = writes + 1
    /\ IF ~down
       THEN /\ staging' = DropIfExists(staging, temp_table)
            /\ err' = origErr
       ELSE /\ UNCHANGED staging
            /\ err' = "cleanup_error"
    /\ pc' = "raised"
    /\ UNCHANGED <<table, now, df, initial_count, loaded_at, temp_table, ret,
                   origErr, staged, tbl0, stg0, prev, calls, down, faults>>
    /\ UNCHANGED notLoad

\* control is back with the caller, who may pass the same frame again next
LoadEnd ==
    /\ pc \in {"returned", "raised", "terminated"}
    /\ \/ prev' = [ok |-> TRUE, df |-> df, ret |-> ret, tbl0 |-> tbl0]
          /\ pc = "returned"
       \/ prev' = NoPrev
    /\ calls' = calls + 1
    /\ pc' = "idle"
    /\ df' = NoDf
    /\ initial_count' = 0
    /\ loaded_at' = 0
    /\ temp_table' = 0
    /\ ret' = 0
    /\ err' = "none"
    /\ origErr' = "none"
    /\ writes' = 0
    /\ staged' = FALSE
    /\ tbl0' = <<>>
    /\ stg0' = <<>>
    /\ UNCHANGED <<table, staging, now, down, faults>>
    /\ UNCHANGED notLoad

\* the process is killed while the call runs: no except block runs, the open
\* transaction of the merge is rolled back, every committed statement stays
Terminate ==
    /\ pc \in {"count0", "to_sql", "merge", "count1", "handler"}
    /\ pc' = "terminated"
    /\ table' = IF pc = "merge" THEN AfterFailedMerge(table, StagedRows) ELSE table
    /\ UNCHANGED <<staging, now, df, initial_count, loaded_at, temp_table, ret,
                   err, origErr, writes, staged, tbl0, stg0, prev, calls, down,
                   faults>>
    /\ UNCHANGED notLoad

LoadBegin == LoadBeginOf(InputDf)

LoadBeginSmall == LoadBeginOf(SmallDf)

LoadBeginPair == LoadBeginOf(PairDf)

\* load_to_database against a store that answers every statement
NextLoad ==
    \/ Tick
    \/ LoadBegin
    \/ LoadCount0
    \/ LoadToSql
    \/ LoadMerge
    \/ LoadCount1
    \/ LoadEnd

\* load_to_database against a store that may become unreachable
NextLoadFault ==
    \/ Tick
    \/ Outage
    \/ Recover
    \/ LoadBeginSmall
    \/ LoadCount0
    \/ LoadToSql
    \/ LoadMerge
    \/ LoadCount1
    \/ LoadHandler
    \/ LoadEnd

\* load_to_database with two-row frames, against a store that may become
\* unreachable, in a process that may be killed
NextLoadCrash ==
    \/ Tick
    \/ Outage
    \/ Recover
    \/ LoadBeginPair
    \/ LoadCount0
    \/ LoadToSql
    \/ LoadMerge
    \/ LoadCount1
    \/ LoadHandler
    \/ Terminate
    \/ LoadEnd


-----------------------------------------------------------------------------
(* The adapter call: with_retry(max_attempts=3) around _extract_single_indicator, *)
(* no retry wrapper around _extract_single_ticker *)

\* bcb_extractor.py:400
max_attempts == 3
\* utils.py:76 and utils.py:77, seconds
min_wait == 1
max_wait == 10

\* what one run of the body of _extract_single_indicator can do once it has
\* called requests.get (bcb_extractor.py:444-476): return, or raise from requests.get
\* (ConnectionError, Timeout), from raise_for_status (HTTPError), from
\* response.json() (JSONDecodeError) or from the record loop (TypeError for an
\* item that is no mapping, which the except clause of the loop does not catch)
AttemptOutcomes ==
    {"ok", "ConnectionError", "Timeout", "HTTPError", "JSONDecodeError", "TypeError"}

\* subclasses of requests.exceptions.RequestException or of ConnectionError
IsRequestException(o, jsonIsReq) ==
    \/ o \in {"ConnectionError", "Timeout", "HTTPError"}
    \/ o = "JSONDecodeError" /\ jsonIsReq

\* utils.py:104-106: retry_if_exception_type((RequestException, ConnectionError))
RetryPredicate(o, jsonIsReq) == IsRequestException(o, jsonIsReq)

\* utils.py:103: wait_exponential(multiplier=1, min=min_wait, max=max_wait)
\* after attempt number attempt_number
WaitExponential(attempt_number) ==
    LET exp == 2 ^ (attempt_number - 1)
        lo == IF min_wait > 0 THEN min_wait ELSE 0
        hi == IF exp < max_wait THEN exp ELSE max_wait
    IN IF lo > hi THEN lo ELSE hi

\* utils.py:101-111: retry(...) is built without reraise=True, so after the
\* last attempt it raises RetryError from the error of that attempt
Exhausted(last) == [kind |-> "RetryError", cause |-> last]

NoError == [kind |-> "none", cause |-> "none"]

\* the network-facing function of each extractor
AdapterFunctions == {"_extract_single_indicator", "_extract_single_ticker"}

\* a stop rule that allows one attempt more
StopLate(attempt_number) == attempt_number > max_attempts

\* utils.py:102: stop_after_attempt(max_attempts)
Stop(attempt_number) == attempt_number >= max_attempts

\* bcb_extractor.py:399-401 stacks @rate_limit(0.5) and @with_retry(max_attempts=3);
\* stock_extractor.py:188-189 has @rate_limit(delay_seconds=0.3) alone
HasRetry(f) == f = "_extract_single_indicator"

InitRetry ==
    /\ rpc = "idle"
    /\ attempts = <<>>
    /\ waits = <<>>
    /\ netCalls = 0
    /\ raised = NoError
    /\ r_fn = "none"
    /\ jsonErrIsRequestException = FALSE

\* an extractor calls its adapter function
RetryCall ==
    /\ rpc = "idle"
    /\ rpc' = "attempt"
    /\ r_fn' \in AdapterFunctions
    /\ jsonErrIsRequestException' \in BOOLEAN
    /\ UNCHANGED <<attempts, waits, netCalls, raised>>
    /\ UNCHANGED notRetry

\* one attempt: the wrapped function runs, then the wrapper decides
RetryAttempt ==
    /\ rpc = "attempt"
    /\ \E o \in AttemptOutcomes :
        /\ attempts' = Append(attempts, o)
        /\ netCalls' = netCalls + 1
        /\ IF o = "ok"
           THEN /\ rpc' = "returned"
                /\ UNCHANGED <<waits, raised>>
           ELSE IF ~HasRetry(r_fn) \/ ~RetryPredicate(o, jsonErrIsRequestException)
           THEN /\ rpc' = "raised"
                /\ raised' = [kind |-> o, cause |-> o]
                /\ UNCHANGED waits
           ELSE IF Stop(Len(attempts) + 1)
           THEN /\ rpc' = "raised"
                /\ raised' = Exhausted(o)
                /\ UNCHANGED waits
           ELSE /\ rpc' = "wait"
                /\ UNCHANGED <<waits, raised>>
    /\ UNCHANGED <<r_fn, jsonErrIsRequestException>>
    /\ UNCHANGED notRetry

\* before_sleep logs, then the wrapper sleeps the backoff wait
RetryWait ==
    /\ rpc = "wait"
    /\ waits' = Append(waits, WaitExponential(Len(attempts)))
    /\ rpc' = "attempt"
    /\ UNCHANGED <<attempts, netCalls, raised, r_fn, jsonErrIsRequestException>>
    /\ UNCHANGED notRetry

NextRetry ==
    \/ RetryCall
    \/ RetryAttempt
    \/ RetryWait

-----------------------------------------------------------------------------
(* rate_limit(delay_seconds) *)

\* the two decorated functions (bcb_extractor.py:399, stock_extractor.py:188)
Funcs == {"_extract_single_indicator", "_extract_single_ticker"}

\* delay_seconds of each, in ticks of 0.1 s: 0.5 s (bcb_extractor.py:399) and
\* 0.3 s (stock_extractor.py:188)
delay_seconds(f) == IF f = "_extract_single_indicator" THEN 5 ELSE 3

InitRate ==
    /\ t = 0
    /\ last_call_time = [f \in Funcs |-> -1]
    /\ lpc = "idle"
    /\ cur = "_extract_single_indicator"
    /\ wakeAt = 0
    /\ began = [f \in Funcs |-> -1]
    /\ returned = [f \in Funcs |-> -1]
    /\ prevReturned = -1
    /\ slept = FALSE

\* time passes
RateTick ==
    /\ t < MaxTime
    /\ t' = t + 1
    /\ UNCHANGED <<last_call_time, lpc, cur, wakeAt, began, returned,
                   prevReturned, slept>>
    /\ UNCHANGED notRate

\* the stamp and the wrapped call (utils.py:66-67)
StartWrapped(f) ==
    /\ last_call_time' = [last_call_time EXCEPT ![f] = t]
    /\ began' = [began EXCEPT ![f] = t]
    /\ prevReturned' = returned[f]
    /\ lpc' = "running"

\* the wrapper is entered (utils.py:56-67): it sleeps when the last stamp is
\* younger than delay_seconds, else it stamps and calls at once
RateCall ==
    /\ lpc = "idle"
    /\ \E f \in Funcs :
        /\ cur' = f
        /\ IF last_call_time[f] # -1 /\ t - last_call_time[f] < delay_seconds(f)
           THEN /\ wakeAt' = t + (delay_seconds(f) - (t - last_call_time[f]))
                /\ lpc' = "sleeping"
                /\ slept' = TRUE
                /\ UNCHANGED <<last_call_time, began, prevReturned>>
           ELSE /\ StartWrapped(f)
                /\ slept' = FALSE
                /\ UNCHANGED wakeAt
    /\ UNCHANGED <<t, returned>>
    /\ UNCHANGED notRate

\* time.sleep(sleep_time) is over (utils.py:64), then the stamp and the call
RateWake ==
    /\ lpc = "sleeping"
    /\ t >= wakeAt
    /\ StartWrapped(cur)
    /\ UNCHANGED <<t, cur, wakeAt, returned, slept>>
    /\ UNCHANGED notRate

\* the wrapped call returns, after any duration
RateReturn ==
    /\ lpc = "running"
    /\ returned' = [returned EXCEPT ![cur] = t]
    /\ lpc' = "idle"
    /\ UNCHANGED <<t, last_call_time, cur, wakeAt, began, prevReturned, slept>>
    /\ UNCHANGED notRate

NextRate ==
    \/ RateTick
    \/ RateCall
    \/ RateWake
    \/ RateReturn

-----------------------------------------------------------------------------
(* _calculate_batches: the windows of the batched backfill *)

\* bcb_extractor.py:324-334: the while loop, from current_start on
RECURSIVE BatchesFrom(_, _, _)
BatchesFrom(current_start, end_date_, batch_size_years) ==
    IF ~(current_start < end_date_) THEN <<>>
    ELSE LET far == current_start + Days(batch_size_years * DaysPerYear)
             batch_end == IF far > end_date_ THEN end_date_ ELSE far
         IN <<<<current_start, batch_end>>>>
            \o BatchesFrom(batch_end + Days(1), end_date_, batch_size_years)

\* bcb_extractor.py:304-336
calculate_batches(start_date_, end_date_, batch_size_years) ==
    BatchesFrom(start_date_, end_date_, batch_size_years)

\* backfill_bcb_historical.py:192-193: years = (end_date - start).days / 365.25
\* and batches = int(years / batch_size_years) + 1, in quarter days
show_backfill_plan(start, end_date_, batch_size_years) ==
    LET days == DateOf(end_date_ - start)
    IN ((4 * days) \div (1461 * batch_size_years)) + 1

InitBatch ==
    /\ cbpc = "idle"
    /\ cb_start = 0
    /\ cb_end = 0
    /\ cb_years = 0
    /\ cb_batches = <<>>
    /\ cb_current = 0
    /\ cb_plan = 0

\* one call with a start at 00:00 of a day, a later end and a width >= 1
BatchCall ==
    /\ cbpc = "idle"
    /\ \E s \in 0..1, e \in 1..(Midnight(MaxDay) + 1), w \in 1..MaxYears :
          /\ Midnight(s) < e
          /\ cb_start' = Midnight(s)
          /\ cb_end' = e
          /\ cb_years' = w
          /\ cb_batches' = calculate_batches(Midnight(s), e, w)
    /\ cbpc' = "returned"
    /\ UNCHANGED <<cb_current, cb_plan>>
    /\ UNCHANGED notBatch

\* the dry run for the same start, end and width (backfill_bcb_historical.py:186-199)
ShowPlan ==
    /\ cbpc = "returned"
    /\ cb_plan' = show_backfill_plan(cb_start, cb_end, cb_years)
    /\ cbpc' = "planned"
    /\ UNCHANGED <<cb_start, cb_end, cb_years, cb_batches, cb_current>>
    /\ UNCHANGED notBatch

\* _calculate_batches is entered with a width the command line accepts
\* (bcb_extractor.py:321-322; --batch-size is type=int)
LoopCall ==
    /\ cbpc = "idle"
    /\ \E s \in 0..1, e \in 1..(Midnight(MaxLoopDay) + 1), w \in (-MaxNegYears)..MaxYears :
          /\ Midnight(s) < e
          /\ cb_start' = Midnight(s)
          /\ cb_end' = e
          /\ cb_years' = w
          /\ cb_current' = Midnight(s)
    /\ cb_batches' = <<>>
    /\ cbpc' = "loop"
    /\ UNCHANGED cb_plan
    /\ UNCHANGED notBatch

\* one iteration of the while loop (bcb_extractor.py:324-334)
LoopStep ==
    /\ cbpc = "loop"
    /\ cb_current < cb_end
    /\ Len(cb_batches) < MaxSteps
    /\ LET far == cb_current + Days(cb_years * DaysPerYear)
           batch_end == IF far > cb_end THEN cb_end ELSE far
       IN /\ cb_batches' = Append(cb_batches, <<cb_current, batch_end>>)
          /\ cb_current' = batch_end + Days(1)
    /\ UNCHANGED <<cbpc, cb_start, cb_end, cb_years, cb_plan>>
    /\ UNCHANGED notBatch

\* the loop condition is false: return batches (bcb_extractor.py:324, 336)
LoopExit ==
    /\ cbpc = "loop"
    /\ ~(cb_current < cb_end)
    /\ cbpc' = "returned"
    /\ UNCHANGED <<cb_start, cb_end, cb_years, cb_batches, cb_current, cb_plan>>
    /\ UNCHANGED notBatch

\* the caller is done with the list
BatchDone ==
    /\ cbpc \in {"returned", "planned"}
    /\ cbpc' = "idle"
    /\ cb_start' = 0
    /\ cb_end' = 0
    /\ cb_years' = 0
    /\ cb_batches' = <<>>
    /\ cb_current' = 0
    /\ cb_plan' = 0
    /\ UNCHANGED notBatch

NextBatch ==
    \/ BatchCall
    \/ ShowPlan
    \/ BatchDone

\* _calculate_batches step by step, for every width the command line accepts
NextBatchLoop ==
    \/ LoopCall
    \/ LoopStep
    \/ LoopExit
    \/ BatchDone

-----------------------------------------------------------------------------
(* The batched backfill: extract_full_historical_batched and               *)
(* extract_single_indicator_full_history                                   *)

\* self.indicators in dict order (config.py:75-85, the head of the default)
IndicatorCodes == <<"432", "433", "1">>
\* config.bcb_indicator_start_dates (config.py:89-99) as days; an extractor
\* may be given an indicator with no start date, here "433"
StartDay == [c \in {"432", "1"} |-> IF c = "432" THEN 0 ELSE 365]
\* a code that self.indicators does not hold
UnknownCode == "9999"

\* datetime.now() of a run: 00:00 or 12:00 of one of the last two days
BackfillNows ==
    {Midnight(d) + h : d \in (MaxNowDay - 1)..MaxNowDay, h \in 0..(TicksPerDay - 1)}

\* what one batch meets: the adapter raises, returns an empty frame, or
\* returns rows (one at the first day of the window, or one at the first and
\* one at the last day); the load of the batch succeeds, raises before its
\* merge committed, or raises after it (the final count fails)
BatchOutcomes ==
    {[adapter |-> "raise", n |-> 0, load |-> "ok"],
     [adapter |-> "empty", n |-> 0, load |-> "ok"]}
    \cup [adapter : {"rows"}, n : 1..2,
          load : {"ok", "raise", "raise_after_commit"}]

\* bcb_extractor.py:457-476: the frame of the adapter for a window
BatchFrame(code, first, last, o) ==
    IF o.adapter # "rows" THEN <<>>
    ELSE IF o.n = 1 THEN <<[key |-> <<code, first>>, val |-> "v1"]>>
    ELSE <<[key |-> <<code, first>>, val |-> "v1"],
           [key |-> <<code, last>>, val |-> "v1"]>>

\* bcb_extractor.py:497-504
IndicatorColumns ==
    {"indicator_code", "indicator_name", "date", "value", "unit", "frequency"}

\* the frame the adapter builds from its records (bcb_extractor.py:476)
IndicatorDf(rows) == [cols |-> IndicatorColumns, rows |-> rows]

\* bcb_extractor.py:478-556: one load_to_database call as a whole: the table
\* after it, whether it raised, and the value it returned
LoadCall(tbl, d, how, at) ==
    LET merged == MergeInsert(tbl, Stamp(d.rows, at, "bcb_api")) IN
    IF ~validate_dataframe(d, IndicatorColumns) \/ how = "raise"
    THEN [table |-> tbl, raised |-> TRUE, ret |-> 0]
    ELSE IF how = "raise_after_commit"
    THEN [table |-> merged, raised |-> TRUE, ret |-> 0]
    ELSE [table |-> merged, raised |-> FALSE,
          ret |-> RowsInserted(Len(merged), Len(tbl))]

\* an except clause that catches the errors of the adapter only
CaughtAdapterOnly(kind) == kind = "adapter"

\* bcb_extractor.py:291, 392: except Exception catches the errors of the
\* adapter (RetryError, HTTPError, TypeError) and of the load (ValueError,
\* SQLAlchemyError)
Caught(kind) == kind \in {"adapter", "load"}

\* the single-indicator loop loading every frame the adapter returned
SingleLoadsAny(o) == o.adapter # "raise"

\* bcb_extractor.py:385: if not df.empty
SingleLoads(o) == o.adapter = "rows"

\* bcb_extractor.py:255-259, 366-369: the windows of an indicator
BatchesOf(code, now_, years) ==
    calculate_batches(Midnight(StartDay[code]), now_, years)

\* the entry of a batch in the log of a run: the adapter call, what it met,
\* and the load_to_database call made for it, if any
LogEntry(code, w, o, loaded, frame, r) ==
    [code |-> code, first |-> DateOf(w[1]), last |-> DateOf(w[2]), o |-> o,
     loaded |-> loaded, frame |-> frame, ret |-> r]

InitBackfill ==
    /\ fpc = "idle"
    /\ f_now = 0
    /\ f_years = 0
    /\ f_save = FALSE
    /\ f_i = 0
    /\ f_b = 0
    /\ indicator_rows = 0
    /\ total_rows_inserted = 0
    /\ f_ret = 0
    /\ f_contrib = [c \in DOMAIN StartDay |-> 0]
    /\ f_log = <<>>
    /\ f_sleeps = 0
    /\ ind_table = <<>>
    /\ ind_table0 = <<>>
    /\ s_code = "none"
    /\ s_b = 0
    /\ total_rows = 0
    /\ s_log = <<>>
    /\ s_table = <<>>
    /\ s_sleeps = 0

\* the tables a run may find: empty, or holding the first day of "432"
\* from an earlier run
BackfillTables ==
    {<<>>, Stamp(<<[key |-> <<"432", 0>>, val |-> "v2"]>>, 0, "bcb_api")}

\* extract_full_historical_batched is called (bcb_extractor.py:235-243)
BackfillCall ==
    /\ fpc = "idle"
    /\ \E n \in BackfillNows, w \in 1..MaxYears, sv \in BOOLEAN,
          tb \in BackfillTables :
          /\ f_now' = n
          /\ f_years' = w
          /\ f_save' = sv
          /\ ind_table' = tb
          /\ ind_table0' = tb
    /\ fpc' = "all"
    /\ f_i' = 1
    /\ f_b' = 1
    /\ indicator_rows' = 0
    /\ total_rows_inserted' = 0
    /\ UNCHANGED <<f_ret, f_contrib, f_log, f_sleeps, s_code, s_b, total_rows, s_log, s_table,
                   s_sleeps>>
    /\ UNCHANGED notBackfill

\* an indicator with no start date is skipped (bcb_extractor.py:250-253)
BackfillSkip ==
    /\ fpc = "all"
    /\ f_i <= Len(IndicatorCodes)
    /\ IndicatorCodes[f_i] \notin DOMAIN StartDay
    /\ f_i' = f_i + 1
    /\ UNCHANGED <<fpc, f_now, f_years, f_save, f_b, indicator_rows,
                   total_rows_inserted, f_ret, f_contrib, f_log, f_sleeps, ind_table,
                   ind_table0, s_code, s_b, total_rows, s_log, s_table,
                   s_sleeps>>
    /\ UNCHANGED notBackfill

\* one iteration of the batch loop (bcb_extractor.py:264-293)
BackfillBatch ==
    /\ fpc = "all"
    /\ f_i <= Len(IndicatorCodes)
    /\ IndicatorCodes[f_i] \in DOMAIN StartDay
    /\ f_b <= Len(BatchesOf(IndicatorCodes[f_i], f_now, f_years))
    /\ \E o \in BatchOutcomes :
       LET code == IndicatorCodes[f_i]
           w == BatchesOf(code, f_now, f_years)[f_b]
           frame == BatchFrame(code, DateOf(w[1]), DateOf(w[2]), o)
           call == LoadCall(ind_table, IndicatorDf(frame), o.load, f_now)
           loads == o.adapter = "rows" /\ f_save
           error == IF o.adapter = "raise" THEN "adapter"
                    ELSE IF loads /\ call.raised THEN "load" ELSE "none"
       IN /\ ~f_save => o.load = "ok"
          /\ f_log' = Append(f_log,
                 LogEntry(code, w, o, loads, IF loads THEN frame ELSE <<>>,
                          IF loads THEN call.ret ELSE 0))
          /\ ind_table' = IF loads THEN call.table ELSE ind_table
          /\ IF error # "none" /\ ~Caught(error)
             THEN /\ fpc' = "all_raised"
                  /\ UNCHANGED <<f_b, indicator_rows, f_sleeps>>
             ELSE /\ fpc' = fpc
                  /\ f_b' = f_b + 1
                  /\ indicator_rows' =
                        IF error # "none" \/ o.adapter = "empty" THEN indicator_rows
                        ELSE IF f_save THEN indicator_rows + call.ret
                        ELSE indicator_rows + Len(frame)
                  /\ f_sleeps' =
                        IF error # "none" \/ o.adapter = "empty" THEN f_sleeps
                        ELSE f_sleeps + 1
    /\ UNCHANGED <<f_now, f_years, f_save, f_i, total_rows_inserted, f_ret, f_contrib,
                   ind_table0, s_code, s_b, total_rows, s_log, s_table,
                   s_sleeps>>
    /\ UNCHANGED notBackfill

\* the batches of the indicator are done (bcb_extractor.py:295-296)
BackfillNextIndicator ==
    /\ fpc = "all"
    /\ f_i <= Len(IndicatorCodes)
    /\ IndicatorCodes[f_i] \in DOMAIN StartDay
    /\ f_b > Len(BatchesOf(IndicatorCodes[f_i], f_now, f_years))
    /\ total_rows_inserted' = total_rows_inserted + indicator_rows
    /\ f_contrib' = [f_contrib EXCEPT ![IndicatorCodes[f_i]] = indicator_rows]
    /\ indicator_rows' = 0
    /\ f_i' = f_i + 1
    /\ f_b' = 1
    /\ UNCHANGED <<fpc, f_now, f_years, f_save, f_ret, f_log, f_sleeps,
                   ind_table, ind_table0, s_code, s_b, total_rows, s_log, s_table,
                   s_sleeps>>
    /\ UNCHANGED notBackfill

\* after the last indicator (bcb_extractor.py:298-302)
BackfillReturn ==
    /\ fpc = "all"
    /\ f_i > Len(IndicatorCodes)
    /\ f_ret' = total_rows_inserted
    /\ fpc' = "all_done"
    /\ UNCHANGED <<f_now, f_years, f_save, f_i, f_b, indicator_rows,
                   total_rows_inserted, f_contrib, f_log, f_sleeps, ind_table, ind_table0,
                   s_code, s_b, total_rows, s_log, s_table,
                   s_sleeps>>
    /\ UNCHANGED notBackfill

\* the entries of code c in a log
RECURSIVE EntriesOf(_, _)
EntriesOf(log, c) ==
    IF log = <<>> THEN <<>>
    ELSE IF Head(log).code = c THEN <<Head(log)>> \o EntriesOf(Tail(log), c)
    ELSE EntriesOf(Tail(log), c)

\* extract_single_indicator_full_history(code, batch_size_years) is called
\* (bcb_extractor.py:353-372) on a store in the state the backfill found, at
\* the same time and with the same batch width, so that the two can be
\* compared
SingleCall ==
    /\ fpc = "all_done"
    /\ \E c \in {IndicatorCodes[i] : i \in 1..Len(IndicatorCodes)} \cup {UnknownCode} :
          /\ s_code' = c
          /\ IF c \notin {IndicatorCodes[i] : i \in 1..Len(IndicatorCodes)}
                \/ c \notin DOMAIN StartDay
             THEN fpc' = "single_raised"
             ELSE fpc' = "single"
    /\ s_b' = 1
    /\ total_rows' = 0
    /\ s_log' = <<>>
    /\ s_table' = ind_table0
    /\ s_sleeps' = 0
    /\ UNCHANGED <<f_now, f_years, f_save, f_i, f_b, indicator_rows,
                   total_rows_inserted, f_ret, f_contrib, f_log, f_sleeps, ind_table,
                   ind_table0>>
    /\ UNCHANGED notBackfill

\* one iteration of its batch loop (bcb_extractor.py:374-394); upstream and
\* the store answer as they did for the same batch of the backfill
SingleBatch ==
    /\ fpc = "single"
    /\ s_b <= Len(BatchesOf(s_code, f_now, f_years))
    /\ LET w == BatchesOf(s_code, f_now, f_years)[s_b]
           o == EntriesOf(f_log, s_code)[s_b].o
           frame == BatchFrame(s_code, DateOf(w[1]), DateOf(w[2]), o)
           call == LoadCall(s_table, IndicatorDf(frame), o.load, f_now)
           loads == o.adapter # "raise" /\ SingleLoads(o)
           error == IF o.adapter = "raise" THEN "adapter"
                    ELSE IF loads /\ call.raised THEN "load" ELSE "none"
       IN /\ s_log' = Append(s_log,
                 LogEntry(s_code, w, o, loads, IF loads THEN frame ELSE <<>>,
                          IF loads THEN call.ret ELSE 0))
          /\ s_table' = IF loads THEN call.table ELSE s_table
          /\ IF error # "none" /\ ~Caught(error)
             THEN /\ fpc' = "single_raised"
                  /\ UNCHANGED <<s_b, total_rows, s_sleeps>>
             ELSE /\ fpc' = fpc
                  /\ s_b' = s_b + 1
                  /\ total_rows' =
                        IF loads /\ error = "none" THEN total_rows + call.ret
                        ELSE total_rows
                  /\ s_sleeps' = IF error = "none" THEN s_sleeps + 1 ELSE s_sleeps
    /\ UNCHANGED <<f_now, f_years, f_save, f_i, f_b, indicator_rows,
                   total_rows_inserted, f_ret, f_contrib, f_log, f_sleeps, ind_table,
                   ind_table0, s_code>>
    /\ UNCHANGED notBackfill

\* after its last batch (bcb_extractor.py:396-397)
SingleReturn ==
    /\ fpc = "single"
    /\ s_b > Len(BatchesOf(s_code, f_now, f_years))
    /\ fpc' = "single_done"
    /\ UNCHANGED <<f_now, f_years, f_save, f_i, f_b, indicator_rows,
                   total_rows_inserted, f_ret, f_contrib, f_log, f_sleeps, ind_table,
                   ind_table0, s_code, s_b, total_rows, s_log, s_table,
                   s_sleeps>>
    /\ UNCHANGED notBackfill

NextBackfill ==
    \/ BackfillCall
    \/ BackfillSkip
    \/ BackfillBatch
    \/ BackfillNextIndicator
    \/ BackfillReturn
    \/ SingleCall
    \/ SingleBatch
    \/ SingleReturn

-----------------------------------------------------------------------------
(* extract_full_historical_batched killed after some batches and run again *)

\* what the backfill variables other than fpc hold
backfillRun == <<f_now, f_years, f_save, f_i, f_b, indicator_rows,
                 total_rows_inserted, f_ret, f_contrib, f_log, f_sleeps,
                 ind_table, ind_table0, s_code, s_b, total_rows, s_log, s_table,
                 s_sleeps>>

InitResume ==
    /\ r_table = <<>>
    /\ r_k = 0
    /\ r_cut = 0
    /\ r_snap = <<>>

\* the store after one batch of a run (bcb_extractor.py:264-293) that meets
\* what the logged batch e met, its load stamping the rows with the time at
ReplayBatch(tbl, e, at) ==
    LET frame == BatchFrame(e.code, e.first, e.last, e.o)
        call == LoadCall(tbl, IndicatorDf(frame), e.o.load, at)
        loads == e.o.adapter = "rows" /\ f_save
    IN IF loads THEN call.table ELSE tbl

\* a second process runs the same backfill from the store the first one found,
\* at the same end date, meeting the same upstream answers, so that the two
\* can be compared
ResumeFirstCall ==
    /\ fpc = "all_done"
    /\ fpc' = "first"
    /\ r_table' = ind_table0
    /\ r_k' = 1
    /\ UNCHANGED <<r_cut, r_snap>>
    /\ UNCHANGED backfillRun
    /\ UNCHANGED notResume

\* one batch of that run
ResumeFirstBatch ==
    /\ fpc = "first"
    /\ r_k <= Len(f_log)
    /\ r_table' = ReplayBatch(r_table, f_log[r_k], f_now)
    /\ r_k' = r_k + 1
    /\ UNCHANGED <<fpc, r_cut, r_snap>>
    /\ UNCHANGED backfillRun
    /\ UNCHANGED notResume

\* the process is killed between two batches, before the first or after the
\* last: what its loads committed stays
ResumeTerminate ==
    /\ fpc = "first"
    /\ fpc' = "terminated"
    /\ r_cut' = r_k - 1
    /\ r_snap' = r_table
    /\ UNCHANGED <<r_table, r_k>>
    /\ UNCHANGED backfillRun
    /\ UNCHANGED notResume

\* extract_full_historical_batched is called again: it starts from the first
\* batch of the first indicator (bcb_extractor.py:245-262 keeps no checkpoint)
ResumeSecondCall ==
    /\ fpc = "terminated"
    /\ fpc' = "rerun"
    /\ r_k' = 1
    /\ UNCHANGED <<r_table, r_cut, r_snap>>
    /\ UNCHANGED backfillRun
    /\ UNCHANGED notResume

\* one batch of the second run, its load at a later time
ResumeSecondBatch ==
    /\ fpc = "rerun"
    /\ r_k <= Len(f_log)
    /\ r_table' = ReplayBatch(r_table, f_log[r_k], f_now + 1)
    /\ r_k' = r_k + 1
    /\ UNCHANGED <<fpc, r_cut, r_snap>>
    /\ UNCHANGED backfillRun
    /\ UNCHANGED notResume

\* the second run returns (bcb_extractor.py:298-302)
ResumeSecondReturn ==
    /\ fpc = "rerun"
    /\ r_k > Len(f_log)
    /\ fpc' = "rerun_done"
    /\ UNCHANGED resumeVars
    /\ UNCHANGED backfillRun
    /\ UNCHANGED notResume

\* an uninterrupted backfill, then the same backfill killed and run again
NextResume ==
    \/ BackfillCall
    \/ BackfillSkip
    \/ BackfillBatch
    \/ BackfillNextIndicator
    \/ BackfillReturn
    \/ ResumeFirstCall
    \/ ResumeFirstBatch
    \/ ResumeTerminate
    \/ ResumeSecondCall
    \/ ResumeSecondBatch
    \/ ResumeSecondReturn

-----------------------------------------------------------------------------
(* load_to_database in two processes at once *)

\* the backfill and the daily job, each an operating-system process
Procs == {"backfill", "daily"}

\* the frames they pass: one row, every required column
ConcFrames == [1..1 -> InputRow]

InitConc ==
    /\ c_table = <<>>
    /\ c_staging = <<>>
    /\ c_now = 0
    /\ c_pc = [p \in Procs |-> "idle"]
    /\ c_df = [p \in Procs |-> <<>>]
    /\ c_at = [p \in Procs |-> 0]
    /\ c_temp = [p \in Procs |-> 0]
    /\ c_init = [p \in Procs |-> 0]
    /\ c_ret = [p \in Procs |-> 0]
    /\ c_err = [p \in Procs |-> "none"]
    /\ c_merged = [p \in Procs |-> <<>>]

\* a second passes
ConcTick ==
    /\ c_now < MaxClock
    /\ c_now' = c_now + 1
    /\ UNCHANGED <<c_table, c_staging, c_pc, c_df, c_at, c_temp, c_init, c_ret,
                   c_err, c_merged>>
    /\ UNCHANGED notConc

\* validation, initial_count, the stamp and the staging name
\* (stock_extractor.py:252-280): temp_table = f"temp_stocks_{int(time.time())}"
ConcBegin ==
    /\ \E p \in Procs, rows \in ConcFrames :
          /\ c_pc[p] = "idle"
          /\ validate_dataframe([cols |-> RequiredColumns, rows |-> rows], RequiredColumns)
          /\ c_df' = [c_df EXCEPT ![p] = rows]
          /\ c_init' = [c_init EXCEPT ![p] = Len(c_table)]
          /\ c_at' = [c_at EXCEPT ![p] = c_now]
          /\ c_temp' = [c_temp EXCEPT ![p] = c_now]
          /\ c_pc' = [c_pc EXCEPT ![p] = "to_sql"]
          /\ c_ret' = [c_ret EXCEPT ![p] = 0]
          /\ c_err' = [c_err EXCEPT ![p] = "none"]
          /\ c_merged' = [c_merged EXCEPT ![p] = <<>>]
    /\ UNCHANGED <<c_table, c_staging, c_now>>
    /\ UNCHANGED notConc

\* df.to_sql(temp_table, if_exists="replace") (stock_extractor.py:283-291)
ConcToSql ==
    /\ \E p \in Procs :
          /\ c_pc[p] = "to_sql"
          /\ c_staging' = ToSqlReplace(c_staging, c_temp[p],
                                       Stamp(c_df[p], c_at[p], SourceTag))
          /\ c_pc' = [c_pc EXCEPT ![p] = "merge"]
    /\ UNCHANGED <<c_table, c_now, c_df, c_at, c_temp, c_init, c_ret, c_err,
                   c_merged>>
    /\ UNCHANGED notConc

\* the INSERT ... SELECT FROM the staging table and its DROP, one transaction
\* (stock_extractor.py:293-305); the INSERT raises when the table is not there
ConcMerge ==
    /\ \E p \in Procs :
          /\ c_pc[p] = "merge"
          /\ IF c_temp[p] \in DOMAIN c_staging
             THEN /\ c_table' = MergeInsert(c_table, c_staging[c_temp[p]])
                  /\ c_merged' = [c_merged EXCEPT ![p] = c_staging[c_temp[p]]]
                  /\ c_staging' = DropIfExists(c_staging, c_temp[p])
                  /\ c_pc' = [c_pc EXCEPT ![p] = "count1"]
             ELSE /\ c_pc' = [c_pc EXCEPT ![p] = "handler"]
                  /\ UNCHANGED <<c_table, c_staging, c_merged>>
    /\ UNCHANGED <<c_now, c_df, c_at, c_temp, c_init, c_ret, c_err>>
    /\ UNCHANGED notConc

\* final_count and the return (stock_extractor.py:307-315)
ConcCount1 ==
    /\ \E p \in Procs :
          /\ c_pc[p] = "count1"
          /\ c_ret' = [c_ret EXCEPT ![p] = RowsInserted(Len(c_table), c_init[p])]
          /\ c_pc' = [c_pc EXCEPT ![p] = "returned"]
    /\ UNCHANGED <<c_table, c_staging, c_now, c_df, c_at, c_temp, c_init, c_err,
                   c_merged>>
    /\ UNCHANGED notConc

\* except Exception: DROP TABLE IF EXISTS, then raise (stock_extractor.py:317-321)
ConcHandler ==
    /\ \E p \in Procs :
          /\ c_pc[p] = "handler"
          /\ c_staging' = DropIfExists(c_staging, c_temp[p])
          /\ c_err' = [c_err EXCEPT ![p] = "merge_error"]
          /\ c_pc' = [c_pc EXCEPT ![p] = "raised"]
    /\ UNCHANGED <<c_table, c_now, c_df, c_at, c_temp, c_init, c_ret, c_merged>>
    /\ UNCHANGED notConc

\* control is back with the caller of the process
ConcEnd ==
    /\ \E p \in Procs :
          /\ c_pc[p] \in {"returned", "raised"}
          /\ c_pc' = [c_pc EXCEPT ![p] = "idle"]
          /\ c_df' = [c_df EXCEPT ![p] = <<>>]
          /\ c_at' = [c_at EXCEPT ![p] = 0]
          /\ c_temp' = [c_temp EXCEPT ![p] = 0]
          /\ c_init' = [c_init EXCEPT ![p] = 0]
          /\ c_ret' = [c_ret EXCEPT ![p] = 0]
          /\ c_err' = [c_err EXCEPT ![p] = "none"]
          /\ c_merged' = [c_merged EXCEPT ![p] = <<>>]
    /\ UNCHANGED <<c_table, c_staging, c_now>>
    /\ UNCHANGED notConc

NextConc ==
    \/ ConcTick
    \/ ConcBegin
    \/ ConcToSql
    \/ ConcMerge
    \/ ConcCount1
    \/ ConcHandler
    \/ ConcEnd

-----------------------------------------------------------------------------
(* The adapters: _extract_single_indicator and _extract_single_ticker, from *)
(* the upstream answer to the frame returned                                *)

\* the "data" field of an item of the BCB answer: absent, null, a string
\* that is no DD/MM/YYYY date, or the DD/MM/YYYY string of a day
DataFields ==
    {[kind |-> k, day |-> 0] : k \in {"absent", "null", "bad"}}
    \cup {[kind |-> "date", day |-> 1]}
\* the "valor" field: absent, null, a string that is no number, or the
\* decimal string of a number
ValorFields ==
    {[kind |-> k, num |-> 0] : k \in {"absent", "null", "bad"}}
    \cup {[kind |-> "number", num |-> 1]}
Items == [data : DataFields, valor : ValorFields]
Responses == UNION {[1..n -> Items] : n \in 0..MaxItems}

\* bcb_extractor.py:459-474: what the body of the try does for one item.
\* item["data"] and item["valor"] raise KeyError for an absent field;
\* parse_bcb_date (utils.py:216) is strptime, which raises ValueError for a
\* string that is no date and TypeError for None; float raises ValueError
\* for a string that is no number and TypeError for None. KeyError and
\* ValueError are caught (the item is skipped), TypeError is not.
ItemResult(item) ==
    IF item.data.kind = "absent" THEN "skipped"
    ELSE IF item.data.kind = "null" THEN "TypeError"
    ELSE IF item.data.kind = "bad" THEN "skipped"
    ELSE IF item.valor.kind = "absent" THEN "skipped"
    ELSE IF item.valor.kind = "null" THEN "TypeError"
    ELSE IF item.valor.kind = "bad" THEN "skipped"
    ELSE "record"

\* bcb_extractor.py:457-476: the loop over the items, in order
RECURSIVE RecordsOf(_)
RecordsOf(data) ==
    IF data = <<>> THEN [raised |-> FALSE, records |-> <<>>]
    ELSE LET r == ItemResult(Head(data)) IN
         IF r = "TypeError" THEN [raised |-> TRUE, records |-> <<>>]
         ELSE LET rest == RecordsOf(Tail(data)) IN
              IF rest.raised THEN rest
              ELSE IF r = "skipped" THEN rest
              ELSE [raised |-> FALSE,
                    records |-> <<[date |-> Head(data).data.day,
                                   value |-> Head(data).valor.num]>>
                                \o rest.records]

\* a close of the upstream price history, in units of 0.00001, or NaN
Closes ==
    {[nan |-> TRUE, v |-> 0]}
    \cup {[nan |-> FALSE, v |-> x] : x \in {-20, 0, 3, 7, 20}}
\* stock.history(...): one row per day, day 1 first
Histories == UNION {[1..n -> Closes] : n \in 0..MaxItems}

\* stock_extractor.py:223: hist["Close"].round(4), to the nearest 0.0001,
\* halves to the even one; NaN stays NaN
Round4(c) ==
    IF c.nan THEN c
    ELSE LET q == c.v \div 10
             r == c.v % 10
         IN [nan |-> FALSE,
             v |-> IF r < 5 THEN q * 10
                   ELSE IF r > 5 THEN (q + 1) * 10
                   ELSE IF q % 2 = 0 THEN q * 10 ELSE (q + 1) * 10]

\* the filter as close_price >= 0
KeepsNonNegative(close_price) == ~close_price.nan /\ close_price.v >= 0

\* stock_extractor.py:229: df[df["close_price"] > 0]; NaN > 0 is False
Keeps(close_price) == ~close_price.nan /\ close_price.v > 0

\* stock_extractor.py:213-229: the records of the history, filtered
RECURSIVE PricesFrom(_, _)
PricesFrom(h, i) ==
    IF i > Len(h) THEN <<>>
    ELSE LET close_price == Round4(h[i]) IN
         (IF Keeps(close_price)
          THEN <<[date |-> i, close_price |-> close_price.v]>>
          ELSE <<>>)
         \o PricesFrom(h, i + 1)

\* bcb_extractor.py:77-85
INDICATOR_FREQUENCIES ==
    [c \in {"432", "433", "1", "12", "24369", "189", "7832"} |->
        IF c \in {"433", "12", "189"} THEN "monthly" ELSE "daily"]

\* bcb_extractor.py:87-95
INDICATOR_UNITS ==
    [c \in {"432", "433", "1", "12", "24369", "189", "7832"} |->
        IF c \in {"432", "24369"} THEN "% per day"
        ELSE IF c \in {"433", "189"} THEN "% monthly"
        ELSE IF c = "12" THEN "% 12 months"
        ELSE "BRL/USD"]

\* a lookup that falls back to "daily"
FrequencyOrDaily(code) ==
    IF code \in DOMAIN INDICATOR_FREQUENCIES THEN INDICATOR_FREQUENCIES[code]
    ELSE "daily"

\* bcb_extractor.py:469: self.INDICATOR_FREQUENCIES.get(code, "unknown")
FrequencyOf(code) ==
    IF code \in DOMAIN INDICATOR_FREQUENCIES THEN INDICATOR_FREQUENCIES[code]
    ELSE "unknown"

\* bcb_extractor.py:468: self.INDICATOR_UNITS.get(code, "")
UnitOf(code) ==
    IF code \in DOMAIN INDICATOR_UNITS THEN INDICATOR_UNITS[code] ELSE ""

\* bcb_extractor.py:462-471: the record appended for a parsed item
IndicatorRecord(code, name, r) ==
    [indicator_code |-> code, indicator_name |-> name, date |-> r.date,
     value |-> r.value, unit |-> UnitOf(code), frequency |-> FrequencyOf(code)]

\* the codes and names the adapter is called with: configured ones
\* (config.py:77-79) and a code the tables do not hold
AdapterCodes == {"432", "433", "1", "4380"}
AdapterNames == {"SELIC", "IPCA"}

InitAdapter ==
    /\ apc = "idle"
    /\ a_fn = "none"
    /\ a_code = "none"
    /\ a_name = "none"
    /\ response = <<>>
    /\ records = <<>>
    /\ hist = <<>>
    /\ prices = <<>>

\* _extract_single_indicator gets an answer (bcb_extractor.py:452-476)
IndicatorAdapter ==
    /\ apc = "idle"
    /\ \E data \in Responses, code \in AdapterCodes, name \in AdapterNames :
          /\ response' = data
          /\ a_code' = code
          /\ a_name' = name
          /\ LET r == RecordsOf(data) IN
             /\ apc' = IF r.raised THEN "raised" ELSE "returned"
             /\ records' = [i \in 1..Len(r.records) |->
                               IndicatorRecord(code, name, r.records[i])]
    /\ a_fn' = "_extract_single_indicator"
    /\ UNCHANGED <<hist, prices>>
    /\ UNCHANGED notAdapter

\* _extract_single_ticker gets a history (stock_extractor.py:206-231)
TickerAdapter ==
    /\ apc = "idle"
    /\ \E h \in Histories :
          /\ hist' = h
          /\ prices' = PricesFrom(h, 1)
    /\ apc' = "returned"
    /\ a_fn' = "_extract_single_ticker"
    /\ UNCHANGED <<a_code, a_name, response, records>>
    /\ UNCHANGED notAdapter

\* yfinance raises: logged and raised again (stock_extractor.py:233-235)
TickerAdapterFails ==
    /\ apc = "idle"
    /\ apc' = "raised"
    /\ a_fn' = "_extract_single_ticker"
    /\ UNCHANGED <<a_code, a_name, response, records, hist, prices>>
    /\ UNCHANGED notAdapter

\* the caller has the frame or the error
AdapterDone ==
    /\ apc \in {"returned", "raised"}
    /\ apc' = "idle"
    /\ a_fn' = "none"
    /\ a_code' = "none"
    /\ a_name' = "none"
    /\ response' = <<>>
    /\ records' = <<>>
    /\ hist' = <<>>
    /\ prices' = <<>>
    /\ UNCHANGED notAdapter

NextAdapter ==
    \/ IndicatorAdapter
    \/ TickerAdapter
    \/ TickerAdapterFails
    \/ AdapterDone

-----------------------------------------------------------------------------
(* Specifications: one per component, the other components at rest *)

Init ==
    /\ InitLoad /\ InitExtract /\ InitRetry /\ InitRate /\ InitBatch
    /\ InitBackfill /\ InitAdapter /\ InitResume /\ InitConc

SpecLoad == Init /\ [][NextLoad]_vars

SpecLoadFault == Init /\ [][NextLoadFault]_vars
SpecLoadCrash == Init /\ [][NextLoadCrash]_vars

SpecExtract == Init /\ [][NextExtract]_vars

SpecRetry == Init /\ [][NextRetry]_vars

SpecRate == Init /\ [][NextRate]_vars

SpecBatch == Init /\ [][NextBatch]_vars
SpecBatchLoop == Init /\ [][NextBatchLoop]_vars

SpecBackfill == Init /\ [][NextBackfill]_vars
SpecResume == Init /\ [][NextResume]_vars
SpecConc == Init /\ [][NextConc]_vars

SpecAdapter == Init /\ [][NextAdapter]_vars

-----------------------------------------------------------------------------
(* Claims about load_to_database *)

\* the natural keys of a frame that a table does not hold
NewKeys(rows, tbl) == KeysOf(rows) \ KeysOf(tbl)

\* a frame the loader has to reject: no rows, or a required column missing
Rejected(d) == d.rows = <<>> \/ ~(RequiredColumns \subseteq d.cols)

\* C1: two consecutive calls with the identical frame return N (the keys the
\* first call newly added) and then 0, and the table after the second call
\* equals the table after the first, in contents and in row count; on an
\* empty table N is the number of distinct keys of the frame.
C1_Idempotent ==
    (pc = "returned" /\ prev.ok) =>
        /\ df = prev.df
        /\ prev.ret = Cardinality(NewKeys(prev.df.rows, prev.tbl0))
        /\ ret = 0
        /\ table = tbl0
        /\ Len(table) = Len(prev.tbl0) + prev.ret
        /\ prev.tbl0 = <<>> => prev.ret = Cardinality(KeysOf(df.rows))

\* the second of two identical calls has returned, the first one having added
\* rows to a table that was not empty
C1_Witness ==
    /\ pc = "returned"
    /\ prev.ok
    /\ prev.tbl0 # <<>>
    /\ prev.ret > 0

\* C2: the value returned is the number of distinct natural keys of the input
\* that the table did not hold before the call, between 0 and the number of
\* input rows.
C2_ReturnsNewKeys ==
    pc = "returned" =>
        /\ ret = Cardinality(NewKeys(df.rows, tbl0))
        /\ 0 <= ret
        /\ ret <= Len(df.rows)

\* a call has returned for a frame that repeats a key and holds a key the
\* table had already, so the result is below the number of input rows
C2_Witness ==
    /\ pc = "returned"
    /\ \E i, j \in 1..Len(df.rows) : i < j /\ df.rows[i].key = df.rows[j].key
    /\ \E i \in 1..Len(df.rows) : HasKey(tbl0, df.rows[i].key)
    /\ ret < Len(df.rows)

\* C3: a load never overwrites or deletes: every stored row is still stored
\* after any step, with every column unchanged, and it stays the only row of
\* its key (the first writer of a key wins).
C3_NeverOverwrites ==
    [][\A i \in 1..Len(table) :
          /\ \E j \in 1..Len(table') : table'[j] = table[i]
          /\ \A j \in 1..Len(table') :
                table'[j].key = table[i].key => table'[j] = table[i]]_vars

\* a merge has run for a frame holding a stored key with other values, at a
\* later second than the one the stored row was loaded at
C3_Witness ==
    /\ pc = "count1"
    /\ \E i \in 1..Len(df.rows), j \in 1..Len(table) :
          /\ df.rows[i].key = table[j].key
          /\ df.rows[i].val # table[j].val
          /\ loaded_at # table[j].loaded_at

\* C4: a call with an empty frame or a frame missing a required column raises
\* at once: no statement is sent to the store, no staging table is created,
\* and the table and the staging tables are as they were before the call.
C4_RejectsBeforeWrite ==
    (pc # "idle" /\ Rejected(df)) =>
        /\ pc = "raised"
        /\ err = "ValueError"
        /\ writes = 0
        /\ ~staged
        /\ table = tbl0
        /\ staging = stg0

\* a frame without close_price has been rejected while the table held rows
\* and a staging table was left over from an earlier call
C4_Witness ==
    /\ pc = "raised"
    /\ df = NoCloseDf
    /\ table # <<>>
    /\ DOMAIN staging # {}

\* C5: on every path out of a call that got as far as staging, the staging
\* table of the call no longer exists, and on a failure path the error that
\* reaches the caller is the error the except clause caught.
C5_StagingRemoved ==
    (pc \in {"returned", "raised"} /\ staged) =>
        /\ temp_table \notin DOMAIN staging
        /\ pc = "raised" => err = origErr

-----------------------------------------------------------------------------
(* Claims about extract_historical *)

\* the adapter call for the i-th entity returned rows
Gave(i) == ~outcomes[i].raises /\ Len(outcomes[i].dates) > 0

\* the rows of the entities from the i-th on that returned rows, in order
RECURSIVE RowsFrom(_)
RowsFrom(i) ==
    IF i > Len(outcomes) THEN <<>>
    ELSE (IF Gave(i) THEN EntityRows(entities[i], outcomes[i].dates) ELSE <<>>)
         \o RowsFrom(i + 1)

\* the entities from the i-th on that raised or returned no row, in order
RECURSIVE FailedFrom(_)
FailedFrom(i) ==
    IF i > Len(outcomes) THEN <<>>
    ELSE (IF Gave(i) THEN <<>> ELSE <<entities[i]>>) \o FailedFrom(i + 1)

ExtractOver == epc \in {"returned", "raised"}

\* C6: when at least one configured entity yields rows the call does not
\* raise, every configured entity has been attempted (also those after a
\* failing one), the failed list holds exactly the failing entities, and the
\* result is the concatenation of the successful entities' rows in the order
\* of the configured list, each entity's rows in adapter order.
C6_PartialFailure ==
    (ExtractOver /\ \E i \in 1..Len(outcomes) : Gave(i)) =>
        /\ epc = "returned"
        /\ Len(outcomes) = Len(entities)
        /\ sleeps = Len(entities)
        /\ failed = FailedFrom(1)
        /\ result = RowsFrom(1)

\* the call has returned although an entity failed between two entities that
\* gave rows, the later one two rows
C6_Witness ==
    /\ epc = "returned"
    /\ \E i, j, k \in 1..Len(outcomes) :
          /\ i < j /\ j < k
          /\ Gave(i) /\ ~Gave(j) /\ Gave(k)
          /\ Len(outcomes[k].dates) = 2

\* C7: when every configured entity raises or returns no row the call raises
\* with all configured entities in its message, after one attempt of each; an
\* empty result is never returned.
C7_TotalFailure ==
    /\ (ExtractOver /\ \A i \in 1..Len(outcomes) : ~Gave(i)) =>
          /\ epc = "raised"
          /\ emsg = entities
          /\ Len(outcomes) = Len(entities)
    /\ epc = "returned" => result # <<>>

\* the call has raised after one entity raised and another returned no row
C7_Witness ==
    /\ epc = "raised"
    /\ \E i, j \in 1..Len(outcomes) :
          /\ outcomes[i].raises
          /\ ~outcomes[j].raises /\ outcomes[j].dates = <<>>

-----------------------------------------------------------------------------
(* Claims about with_retry *)

\* connection and timeout errors
Transient == {"ConnectionError", "Timeout"}
\* an auth-failure status raised by raise_for_status, an undecodable body
NonTransient == {"HTTPError", "JSONDecodeError"}

\* C8: an attempt that fails with a non-transient error is the last one: the
\* error propagates to the caller as it is, with no backoff wait and no
\* further network call after it; when it is the first attempt the call has
\* made exactly one attempt.
C8_NoRetryOfNonTransient ==
    \A i \in 1..Len(attempts) :
        attempts[i] \in NonTransient =>
            /\ rpc = "raised"
            /\ i = Len(attempts)
            /\ netCalls = i
            /\ Len(waits) = i - 1
            /\ raised.kind = attempts[i]

\* C9: when all max_attempts attempts fail with a transient error, the error
\* that reaches the caller is the error of the last attempt, not a wrapper.
C9_LastErrorReraised ==
    (/\ rpc = "raised"
     /\ Len(attempts) = max_attempts
     /\ \A i \in 1..Len(attempts) : attempts[i] \in Transient) =>
        /\ raised.kind = attempts[Len(attempts)]
        /\ raised.cause = attempts[Len(attempts)]

-----------------------------------------------------------------------------
(* Claims about rate_limit *)

\* C10: a wrapped call begins no earlier than delay_seconds after the
\* previous wrapped call of the same function returned; the first invocation
\* of a function is never delayed; an invocation that is delayed waits for
\* the stamp of its own function only.
C10_SpacingAfterReturn ==
    /\ (lpc = "running" /\ prevReturned # -1) =>
          began[cur] - prevReturned >= delay_seconds(cur)
    /\ (lpc = "running" /\ prevReturned = -1) => ~slept
    /\ lpc = "sleeping" =>
          /\ last_call_time[cur] # -1
          /\ wakeAt = last_call_time[cur] + delay_seconds(cur)

-----------------------------------------------------------------------------
(* Claims about _calculate_batches *)

\* the days of window i, first to last
WindowFirst(i) == DateOf(cb_batches[i][1])
WindowLast(i) == DateOf(cb_batches[i][2])

\* C11: for every start S, end N with S < N and width W >= 1 the windows
\* returned begin at S, follow one another with neither gap nor overlap (each
\* begins one day after the end of the one before), span at most W*365 days
\* and exactly that but for the last, end at N, and cover every day of
\* [S, N] exactly once, day N included.
C11_WindowsCover ==
    cbpc = "returned" =>
        LET n == Len(cb_batches) IN
        /\ n >= 1
        /\ cb_batches[1][1] = cb_start
        /\ \A i \in 2..n : cb_batches[i][1] = cb_batches[i - 1][2] + Days(1)
        /\ \A i \in 1..n :
              cb_batches[i][2] - cb_batches[i][1] <= Days(cb_years * DaysPerYear)
        /\ \A i \in 1..(n - 1) :
              cb_batches[i][2] - cb_batches[i][1] = Days(cb_years * DaysPerYear)
        /\ WindowLast(n) = DateOf(cb_end)
        /\ \A d \in DateOf(cb_start)..DateOf(cb_end) :
              Cardinality({i \in 1..n : WindowFirst(i) <= d /\ d <= WindowLast(i)}) = 1

-----------------------------------------------------------------------------
(* Claims about the batched backfill *)

\* the adapter calls of a log: (code, first day, last day), in order
Attempts(log) == [i \in 1..Len(log) |-> <<log[i].code, log[i].first, log[i].last>>]

\* the windows of the indicators from the i-th on that have a start date, in
\* configured order and window order
RECURSIVE WindowsFrom(_)
WindowsFrom(i) ==
    IF i > Len(IndicatorCodes) THEN <<>>
    ELSE LET c == IndicatorCodes[i] IN
         IF c \notin DOMAIN StartDay THEN WindowsFrom(i + 1)
         ELSE LET ws == BatchesOf(c, f_now, f_years) IN
              [k \in 1..Len(ws) |-> <<c, DateOf(ws[k][1]), DateOf(ws[k][2])>>]
              \o WindowsFrom(i + 1)

IsPrefix(p, q) == Len(p) <= Len(q) /\ SubSeq(q, 1, Len(p)) = p

BackfillOver == fpc \in {"all_done", "single", "single_done", "single_raised"}

\* C12: extract_full_historical_batched is best-effort: an error of the
\* adapter or of the per-batch load never leaves the call; the batches are
\* attempted in window order within an indicator and in configured order
\* across indicators, and when the call has returned every batch of every
\* indicator with a start date was attempted exactly once.
C12_BestEffort ==
    /\ fpc # "all_raised"
    /\ fpc # "idle" => IsPrefix(Attempts(f_log), WindowsFrom(1))
    /\ BackfillOver => Attempts(f_log) = WindowsFrom(1)

\* a finished run in which an adapter call raised, a load raised, and a later
\* batch was still attempted
C12_Witness ==
    /\ fpc = "all_done"
    /\ \E i, j, k \in 1..Len(f_log) :
          /\ i < k /\ j < k
          /\ f_log[i].o.adapter = "raise"
          /\ f_log[j].loaded /\ f_log[j].o.load # "ok"

RECURSIVE SumRet(_)
SumRet(log) == IF log = <<>> THEN 0 ELSE Head(log).ret + SumRet(Tail(log))

\* C13: with per-batch loading the value extract_full_historical_batched
\* returns is the sum of what the successful loads returned, and that is the
\* growth of the indicators table over the run.
C13_ReturnsTableGrowth ==
    (fpc = "all_done" /\ f_save) =>
        /\ f_ret = SumRet(f_log)
        /\ f_ret = Len(ind_table) - Len(ind_table0)

\* C14: extract_single_indicator_full_history(code, W) batches as the backfill
\* does for that code: with upstream and the store answering alike it makes
\* the same adapter calls and the same loads in the same order and returns
\* what the backfill (saving after each batch) counted for the code; for a
\* code that is not configured or has no start date it raises before any
\* adapter call or load.
C14_SingleMatchesBackfill ==
    /\ (fpc = "single_done" /\ f_save) =>
          /\ s_log = EntriesOf(f_log, s_code)
          /\ total_rows = f_contrib[s_code]
    /\ fpc = "single_raised" =>
          /\ s_code \notin DOMAIN StartDay
          /\ s_log = <<>>
          /\ s_table = ind_table0

\* a single-indicator run of two batches that loaded rows and met an error
C14_Witness ==
    /\ fpc = "single_done"
    /\ f_save
    /\ Len(s_log) >= 2
    /\ total_rows > 0
    /\ \E i \in 1..Len(s_log) : s_log[i].o.adapter = "raise" \/ s_log[i].o.load # "ok"

-----------------------------------------------------------------------------
(* Claims about the dates of extract_historical and extract_incremental *)

\* the call was made with a malformed date, with a start after the end or
\* with a start before the sanity floor
BadDates ==
    \/ start_date.kind = "bad"
    \/ end_date.kind = "bad"
    \/ /\ start_date.kind = "date"
       /\ end_date.kind = "date"
       /\ (start_date.day > end_date.day \/ start_date.day < FloorDay)

\* C15: a configuration error is raised before any I/O: extract_historical
\* called with a malformed date, a start after the end or a start before the
\* sanity floor raises before any adapter call, any sleep between entities
\* and any access to the store.
C15_ConfigErrorsBeforeIO ==
    (epc # "idle" /\ BadDates) =>
        /\ epc = "invalid"
        /\ adapter_calls = <<>>
        /\ outcomes = <<>>
        /\ sleeps = 0
        /\ writes = 0 /\ calls = 0 /\ table = <<>> /\ staging = <<>>

\* a call rejected for a start before the floor alone
C15_Witness ==
    /\ epc = "invalid"
    /\ start_date.kind = "date" /\ end_date.kind = "date"
    /\ start_date.day < FloorDay
    /\ start_date.day <= end_date.day
    /\ Midnight(end_date.day) <= today

\* C16: extract_historical with an end date later than now warns and treats
\* the end as now: every adapter call of the extraction is issued with the
\* current date as its end date.
C16_FutureEndIsNow ==
    (/\ epc \in {"loop", "returned", "raised"}
     /\ Midnight(end_date.day) > today) =>
        /\ warned
        /\ \A i \in 1..Len(adapter_calls) :
              adapter_calls[i][3] = DateStr(DateOf(today))

\* C17: extract_incremental(lookback_days) calls extract_historical with
\* start = now - lookback_days and end = now for every lookback_days passed,
\* 0 included; the configured default is used only when it is omitted.
C17_IncrementalWindow ==
    (epc # "idle" /\ lookback_arg.called) =>
        /\ arg_end = DateStr(DateOf(today))
        /\ arg_start =
              DateStr(DateOf(today - Days(IF lookback_arg.given
                                          THEN lookback_arg.days
                                          ELSE ConfigLookbackDays)))

\* C20: every record extract_historical(start, end) returns is dated inside
\* [start, end], whatever rows upstream sends back.
C20_DatesInRange ==
    epc = "returned" =>
        \A i \in 1..Len(result) :
            start_date.day <= result[i].date /\ result[i].date <= end_date.day

-----------------------------------------------------------------------------
(* Claims about the adapters *)

\* an item with a date and a numeric value
WellFormed(item) == item.data.kind = "date" /\ item.valor.kind = "number"

\* the records of the well-formed items of an answer, in order
RECURSIVE WellFormedRecords(_)
WellFormedRecords(data) ==
    IF data = <<>> THEN <<>>
    ELSE (IF WellFormed(Head(data))
          THEN <<[date |-> Head(data).data.day, value |-> Head(data).valor.num]>>
          ELSE <<>>)
         \o WellFormedRecords(Tail(data))

\* C18: the indicator adapter never fails on a malformed record: for every
\* upstream answer it returns, as records, exactly the well-formed items and
\* drops each item whose date or value is absent, null, unparseable or not
\* numeric; an empty answer gives an empty result.
C18_MalformedItemsDropped ==
    (apc # "idle" /\ a_fn = "_extract_single_indicator") =>
        /\ apc = "returned"
        /\ [i \in 1..Len(records) |->
              [date |-> records[i].date, value |-> records[i].value]]
           = WellFormedRecords(response)

PositiveClose(c) == ~c.nan /\ c.v > 0
PositiveRoundedClose(c) == ~c.nan /\ Round4(c).v > 0

\* the days of the history whose close is > 0, in order
PositiveDays(h) ==
    SelectSeq([i \in 1..Len(h) |-> i], LAMBDA i : PositiveClose(h[i]))
\* the days of the history whose close rounded to 4 decimals is > 0, in order
PositiveRoundedDays(h) ==
    SelectSeq([i \in 1..Len(h) |-> i], LAMBDA i : PositiveRoundedClose(h[i]))

PriceDays == [i \in 1..Len(prices) |-> prices[i].date]

\* C19 (as the code has it): every row the price adapter returns has
\* close_price > 0, and the rows returned are, in upstream order, the
\* upstream rows whose close rounded to 4 decimals is > 0; rows with a zero,
\* negative or missing close are dropped.
C19_PositiveRoundedCloseKept ==
    (apc = "returned" /\ a_fn = "_extract_single_ticker") =>
        /\ \A i \in 1..Len(prices) : prices[i].close_price > 0
        /\ PriceDays = PositiveRoundedDays(hist)
        /\ \A i \in 1..Len(prices) :
              prices[i].close_price = Round4(hist[prices[i].date]).v

\* a history of a kept row between two dropped ones
C19_Witness ==
    /\ apc = "returned"
    /\ a_fn = "_extract_single_ticker"
    /\ Len(hist) = 2
    /\ Len(prices) = 1
    /\ \E i \in 1..Len(hist) : ~hist[i].nan /\ hist[i].v <= 0

\* C19 (as stated): every upstream row with close > 0 is kept, in upstream
\* order, and no other row is.
C19_PositiveCloseKept ==
    (apc = "returned" /\ a_fn = "_extract_single_ticker") =>
        PriceDays = PositiveDays(hist)

\* C21: every record of the indicator adapter is stamped from the static
\* code tables: "432" gets frequency "daily" and unit "% per day", "433"
\* gets frequency "monthly", a code the tables do not hold gets frequency
\* "unknown" and unit ""; the stamp depends on the code alone.
C21_StampFromCodeTables ==
    (apc = "returned" /\ a_fn = "_extract_single_indicator") =>
        \A i \in 1..Len(records) :
            /\ records[i].indicator_code = a_code
            /\ a_code = "432" =>
                  records[i].frequency = "daily" /\ records[i].unit = "% per day"
            /\ a_code = "433" => records[i].frequency = "monthly"
            /\ a_code = "4380" =>
                  records[i].frequency = "unknown" /\ records[i].unit = ""
            /\ \A j \in 1..Len(records) :
                  /\ records[j].frequency = records[i].frequency
                  /\ records[j].unit = records[i].unit

\* an answer of two records for a code the tables do not hold
C21_Witness ==
    /\ apc = "returned"
    /\ a_fn = "_extract_single_indicator"
    /\ a_code = "4380"
    /\ Len(records) = 2


-----------------------------------------------------------------------------
(* Claims about a load in a process that may be killed *)

\* no two rows of a table share a natural key
UniqueKeys(tbl) == \A i, j \in 1..Len(tbl) : tbl[i].key = tbl[j].key => i = j

\* C22: after any sequence of load_to_database calls, with frames that hold a
\* key twice, with failed and with killed calls, the table holds at most one
\* row per natural key, and no step removes a natural key from the table.
C22_KeysUniqueAndGrow ==
    /\ [](UniqueKeys(table))
    /\ [][KeysOf(table) \subseteq KeysOf(table')]_vars

\* a call has merged a frame that holds one key twice, after an earlier call
\* met an outage of the store
C22_Witness ==
    /\ pc = "returned"
    /\ Len(df.rows) = 2
    /\ df.rows[1].key = df.rows[2].key
    /\ HasKey(table, df.rows[1].key)
    /\ faults >= 1
    /\ calls >= 1

\* C23: a process killed at any point of a call leaves no staging table
\* behind that was not there when the call began.
C23_NoStagingAfterTermination ==
    pc = "terminated" => DOMAIN staging \subseteq DOMAIN stg0

\* C24: a load interrupted by termination or by a merge error is never partly
\* visible: in every state of a call the table holds, beyond the rows it held
\* when the call began, none or all of the keys the call would newly insert.
C24_NoneOrAll ==
    pc # "idle" =>
        LET new == NewKeys(df.rows, tbl0) IN
            /\ KeysOf(table) \ KeysOf(tbl0) \in {{}, new}
            /\ \A i \in 1..Len(tbl0) : i <= Len(table) /\ table[i] = tbl0[i]

\* the merge of a frame with two new keys has failed or was cut off by the
\* termination of the process, and none of the two rows is stored
C24_Witness ==
    /\ \/ pc = "raised" /\ origErr = "merge_error"
       \/ pc = "terminated" /\ writes = 1
    /\ temp_table \in DOMAIN staging
    /\ Cardinality(NewKeys(df.rows, tbl0)) = 2
    /\ table = tbl0


-----------------------------------------------------------------------------
(* Claims about retries at the adapter boundary *)

\* C25: for both adapters a transient error is retried: an adapter call whose
\* attempts all failed with a transient error reaches the extractor as a
\* failure only after max_attempts attempts.
C25_FailureOnlyAfterRetries ==
    (/\ rpc = "raised"
     /\ \A i \in 1..Len(attempts) : attempts[i] \in Transient) =>
        Len(attempts) = max_attempts

\* the waits of a call grow by doubling up to max_wait
Doubling(ws) ==
    \A i \in 1..(Len(ws) - 1) :
        /\ ws[i + 1] >= ws[i]
        /\ ws[i + 1] = (IF 2 * ws[i] < max_wait THEN 2 * ws[i] ELSE max_wait)

\* C26: one invocation of a retry-wrapped call runs the wrapped function at
\* most max_attempts times and never again after its first success; there is
\* one wait per retry, every wait lies in [min_wait, max_wait], and the waits
\* are non-decreasing, each the double of the one before.
C26_RetryBounds ==
    r_fn = "_extract_single_indicator" =>
        /\ netCalls = Len(attempts)
        /\ netCalls <= max_attempts
        /\ \A i \in 1..(Len(attempts) - 1) : attempts[i] # "ok"
        /\ Len(waits) \in {Len(attempts) - 1, Len(attempts)} \cap Nat
        /\ Len(waits) = Len(attempts) => rpc = "attempt"
        /\ \A i \in 1..Len(waits) : min_wait <= waits[i] /\ waits[i] <= max_wait
        /\ Doubling(waits)

\* every attempt allowed was made and failed, with two waits in between
C26_Witness ==
    /\ r_fn = "_extract_single_indicator"
    /\ rpc = "raised"
    /\ Len(attempts) = max_attempts
    /\ Len(waits) = max_attempts - 1
    /\ waits[2] = 2 * waits[1]


-----------------------------------------------------------------------------
(* Claims about the loop of _calculate_batches and the dry-run plan *)

\* C28: _calculate_batches terminates for every integer width: every
\* iteration of the loop moves the window start to a strictly later time.
C28_StartAdvances ==
    [][(cbpc = "loop" /\ cbpc' = "loop") => cb_current' > cb_current]_vars

\* C30: the "Batches needed" count of the dry run equals the number of
\* windows _calculate_batches produces for the same start, end and width.
C30_PlanMatchesWindows ==
    cbpc = "planned" => cb_plan = Len(cb_batches)


-----------------------------------------------------------------------------
(* Claims about a backfill that is killed and run again *)

\* the rows of a table without the time they were loaded at
Unstamped(tbl) ==
    [i \in 1..Len(tbl) |-> [key |-> tbl[i].key, val |-> tbl[i].val, source |-> tbl[i].source]]

\* C27: a batched backfill is resumable: when a run is killed after any
\* number of batches and the backfill is run again to its end against the
\* same upstream answers, the indicators table holds, but for the load time,
\* the rows an uninterrupted run leaves, no key twice, and every row the
\* killed run had loaded is still stored exactly as it was.
C27_Resumable ==
    fpc = "rerun_done" =>
        /\ Unstamped(r_table) = Unstamped(ind_table)
        /\ UniqueKeys(r_table)
        /\ IsPrefix(r_snap, r_table)

\* a run killed after a batch that loaded rows and before one that loads
\* rows, then run again to its end
C27_Witness ==
    /\ fpc = "rerun_done"
    /\ f_save
    /\ r_cut >= 1
    /\ r_cut < Len(f_log)
    /\ Len(r_snap) > Len(ind_table0)
    /\ Len(r_table) > Len(r_snap)


-----------------------------------------------------------------------------
(* Claims about loads that overlap in time *)

\* C29: two load_to_database calls that overlap in time do not interfere
\* through the staging area: neither fails on a store that answers every
\* statement, and each merges exactly the rows of its own frame, also when
\* both start within the same clock second.
C29_NoInterference ==
    \A p \in Procs :
        /\ c_pc[p] \notin {"handler", "raised"}
        /\ c_pc[p] \in {"count1", "returned"} =>
              c_merged[p] = Stamp(c_df[p], c_at[p], SourceTag)

====
